---- MODULE Spec2Model ----
(***************************************************************************)
(* Baseline tooling of firecracker: the dimension enumerations             *)
(* (tools/print_baselines/utils/types.py), the baseline loader             *)
(* (utils/parser.py, utils/net_throughput.py), the git-history plotting    *)
(* loop with its GitWorktree context manager, and the worktree handling of *)
(* the `commit` and `latest` commands of tools/compare_baselines/main.py.  *)
(*                                                                         *)
(* Python values are represented as follows: a str is a TLA+ string, an    *)
(* enumeration member is the string "<Class>.<MEMBER>", None is "None", a  *)
(* dict is the sequence of its <<key, value>> items in insertion order and *)
(* a raised exception is the name of its class.                            *)
(***************************************************************************)
EXTENDS Integers, Sequences, FiniteSets, TLC

VARIABLES
    \* ---- types.py conversions ----
    fn,         \* the parsing function of the conversion under way
    val,        \* the enumeration member str() is applied to
    text,       \* the argument tuple handed to the parsing function
    res,        \* what the parsing function returned or raised
    tpc,        \* position of the conversion
    \* ---- NetworkTCPThroughput(...) : loading one document ----
    doc,        \* the document being loaded (a DocParams record)
    lpc,        \* position of the constructor
    this,       \* the object under construction (`self`)
    cursor,     \* number of the CPU entry _parse_data visits next
    calls,      \* leaves the extraction function has been invoked for
    load_err,   \* the exception the constructor raised
    result,     \* what the caller of the constructor holds
    \* ---- git ----
    worktrees,  \* paths of the worktrees that exist
    git_log,    \* the git commands that succeeded and the comparator calls
    \* ---- compare_baselines/main.py: cmd_commit, cmd_latest ----
    cmd,        \* the handler running
    args,       \* its arguments: [source, target]
    head,       \* the revision `git show` reports
    cpc,        \* position of the handler
    cmd_err,    \* the exception that ended the handler
    \* ---- net_throughput.py: _plot_network_tcp_throughput ----
    git_versions,        \* the git refs to plot
    machine,             \* the CpuModel asked for
    host_kernel,         \* the host KernelVersion asked for
    guest_kernel,        \* the guest KernelVersion asked for
    repo,                \* per revision, what its tree holds
    ppc,                 \* position in the function
    idx,                 \* index of git_ref in git_versions
    gw_hash,             \* GitWorktree._hash, also bound to `worktree`
    parser_obj,          \* the object bound to `parser` in the loop
    found_git_versions,
    guest_to_host,       \* the three collected series
    pending,             \* how the with-block is being left
    plot_err,            \* the exception that ended the function
    \* ---- main() of compare_baselines/main.py and print_baselines/main.py ----
    tool,       \* the entry point run
    request,    \* the command line, option by option
    mpc,        \* position in main() and the handler
    handler,    \* args.handler
    m_ix,       \* index of `machine` in args.cpu_models
    h_ix,       \* index of `host_kernel` in args.host_kernels
    g_ix,       \* index of `guest_kernel` in args.guest_kernels
    main_err,   \* the exception that ended the run and the call that raised it
    \* ---- compare_baselines: the report and output_images.py ----
    basis_leaf,       \* the basis BaselineLeaf of the coordinate compared
    comparison_leaf,  \* the comparison BaselineLeaf at the same coordinate
    report,           \* the result document: dump_json writes it, main() loads it
    ipc,              \* position in the comparison and in main() of output_images.py
    key_ix,           \* index of (key, base) in the list main() goes through
    figures,          \* the bar charts saved so far
    img_err,          \* the exception that ended output_images.py
    \* ---- queries of a loaded NetworkTCPThroughput ----
    q_log,      \* the accessor calls made on the loaded object and their results
    \* ---- .buildkite/pipeline_perf.py ----
    perf_test,    \* the module-level dict of test definitions
    pipe_args,    \* args after parse_args and the defaults: test, instances, kernels, retries
    group_steps,
    t_ix,         \* index of test_data in tests
    pipe_pc,      \* position in the module body
    pipe_err,     \* the exception that ended the script
    \* ---- NetworkTCPThroughput.parser(data, container) on its own ----
    payload,      \* data: the statistic-kind payload of a leaf
    container,    \* the dict the extraction function fills
    xpc           \* position of the call

typeVars == <<fn, val, text, res, tpc>>
loadVars == <<doc, lpc, this, cursor, calls, load_err, result>>
gitVars == <<worktrees, git_log>>
cmdVars == <<cmd, args, head, cpc, cmd_err>>
plotVars == <<git_versions, machine, host_kernel, guest_kernel, repo, ppc, idx,
              gw_hash, parser_obj, found_git_versions, guest_to_host, pending,
              plot_err>>
mainVars == <<tool, request, mpc, handler, m_ix, h_ix, g_ix, main_err>>
imgVars == <<basis_leaf, comparison_leaf, report, ipc, key_ix, figures, img_err>>
queryVars == <<q_log>>
pipeVars == <<perf_test, pipe_args, group_steps, t_ix, pipe_pc, pipe_err>>
extractVars == <<payload, container, xpc>>
vars == <<typeVars, loadVars, gitVars, cmdVars, plotVars, mainVars, imgVars,
          queryVars, pipeVars, extractVars>>
exceptTypes == <<loadVars, gitVars, cmdVars, plotVars, mainVars, imgVars,
                 queryVars, pipeVars, extractVars>>
exceptLoad == <<typeVars, gitVars, cmdVars, plotVars, mainVars, imgVars,
                queryVars, pipeVars, extractVars>>
exceptCmd == <<typeVars, loadVars, plotVars, mainVars, imgVars, queryVars, pipeVars, extractVars>>
exceptPlot == <<typeVars, loadVars, cmdVars, mainVars, imgVars, queryVars, pipeVars, extractVars>>
\* what main() of the two command-line tools never touches
exceptMain == <<typeVars, loadVars, imgVars, queryVars, pipeVars, extractVars>>
exceptImg == <<typeVars, loadVars, gitVars, cmdVars, plotVars, mainVars,
               queryVars, pipeVars, extractVars>>
exceptQuery == <<typeVars, gitVars, cmdVars, plotVars, mainVars, imgVars, pipeVars, extractVars>>
exceptPipe == <<typeVars, loadVars, gitVars, cmdVars, plotVars, mainVars, imgVars,
                queryVars, extractVars>>
exceptExtract == <<typeVars, loadVars, gitVars, cmdVars, plotVars, mainVars, imgVars,
                   queryVars, pipeVars>>

None == "None"
Exception == "Exception"
KeyError == "KeyError"
AssertionError == "AssertionError"
OSError == "OSError"
CalledProcessError == "CalledProcessError"

Raised(x) == x \in {Exception, KeyError, AssertionError, OSError,
                    CalledProcessError}

(***************************************************************************)
(* dict helpers: a dict is a sequence of <<key, value>> with distinct keys *)
(***************************************************************************)
Keys(d) == [i \in 1..Len(d) |-> d[i][1]]

Has(d, k) == \E i \in 1..Len(d) : d[i][1] = k

Get(d, k) == d[CHOOSE i \in 1..Len(d) : d[i][1] = k][2]

\* d[k] = v: an existing key keeps its position and takes the new value
Put(d, k, v) ==
    IF Has(d, k)
    THEN [i \in 1..Len(d) |-> IF d[i][1] = k THEN <<k, v>> ELSE d[i]]
    ELSE Append(d, <<k, v>>)

\* the value of the expression e, written Eval({body : x \in {e}}) where the
\* body uses the value several times
Eval(S) == CHOOSE x \in S : TRUE

(***************************************************************************)
(* types.py                                                                *)
(***************************************************************************)
CpuModel == {"CpuModel.SKY_LAKE", "CpuModel.CASCADE_LAKE", "CpuModel.ICE_LAKE",
             "CpuModel.MILAN", "CpuModel.GRAVITON2", "CpuModel.GRAVITON3",
             "CpuModel.GRAVITON4"}

GuestOs == {"GuestOs.UBUNTU_18_04"}

MachineConfig == {"MachineConfig.VCPU_1_MEM_1G", "MachineConfig.VCPU_2_MEM_1G"}

Metric == {"Metric.CPU_TOTAL", "Metric.CPU_IO", "Metric.THROUGHPUT"}

KernelVersion == {"KernelVersion.KERNEL_5_10", "KernelVersion.KERNEL_4_14"}

CpuModel_str(self) ==
    CASE self = "CpuModel.SKY_LAKE" -> "SkyLake"
      [] self = "CpuModel.CASCADE_LAKE" -> "CascadeLake"
      [] self = "CpuModel.ICE_LAKE" -> "IceLake"
      [] self = "CpuModel.MILAN" -> "Milan"
      [] self = "CpuModel.GRAVITON2" -> "Graviton2"
      [] self = "CpuModel.GRAVITON3" -> "Graviton3"
      [] self = "CpuModel.GRAVITON4" -> "Graviton4"
      [] OTHER -> None

MODELCODE ==
    << << <<"m5d.metal", "Intel(R) Xeon(R) Platinum 8175M CPU @ 2.50GHz">>, "CpuModel.SKY_LAKE" >>,
       << <<"m5d.metal", "Intel(R) Xeon(R) Platinum 8259CL CPU @ 2.50GHz">>, "CpuModel.CASCADE_LAKE" >>,
       << <<"m6i.metal", "Intel(R) Xeon(R) Platinum 8375C CPU @ 2.90GHz">>, "CpuModel.ICE_LAKE" >>,
       << <<"m6a.metal", "AMD EPYC 7R13 48-Core Processor">>, "CpuModel.MILAN" >>,
       << <<"m6g.metal", "ARM_NEOVERSE_N1">>, "CpuModel.GRAVITON2" >>,
       << <<"m6g.metal", "ARM_NEOVERSE_V1">>, "CpuModel.GRAVITON3" >>,
       << <<"c7g.metal", "ARM_NEOVERSE_V1">>, "CpuModel.GRAVITON4" >> >>

\* MODELCODE[(instance_type, model)]: a missing key raises KeyError
CpuModel_from_str(instance_type, model) ==
    IF Has(MODELCODE, <<instance_type, model>>)
    THEN Get(MODELCODE, <<instance_type, model>>)
    ELSE KeyError

\* str.lower() on the codename spellings the model uses
lower(name) ==
    CASE name \in {"SkyLake", "SKYLAKE", "Skylake"} -> "skylake"
      [] name \in {"CascadeLake", "CASCADELAKE"} -> "cascadelake"
      [] name \in {"IceLake", "ICELAKE"} -> "icelake"
      [] name \in {"Milan", "MILAN"} -> "milan"
      [] name \in {"Graviton2", "GRAVITON2"} -> "graviton2"
      [] name \in {"Graviton3", "GRAVITON3"} -> "graviton3"
      [] name \in {"Graviton4", "GRAVITON4"} -> "graviton4"
      [] name = "Graviton5" -> "graviton5"
      [] name = "Ubuntu 18.04" -> "ubuntu 18.04"
      [] OTHER -> name

CpuModel_from_codename(name0) ==
    LET name == lower(name0)
    IN  CASE name = "skylake" -> "CpuModel.SKY_LAKE"
          [] name = "cascadelake" -> "CpuModel.CASCADE_LAKE"
          [] name = "icelake" -> "CpuModel.ICE_LAKE"
          [] name = "milan" -> "CpuModel.MILAN"
          [] name = "graviton2" -> "CpuModel.GRAVITON2"
          [] name = "graviton3" -> "CpuModel.GRAVITON3"
          [] name = "graviton4" -> "CpuModel.GRAVITON4"
          [] OTHER -> Exception

GuestOs_str(self) ==
    IF self = "GuestOs.UBUNTU_18_04" THEN "Ubuntu 18.04" ELSE None

\* an unknown root filesystem falls back to the only member
GuestOs_from_str_default(raw_str) == "GuestOs.UBUNTU_18_04"

GuestOs_from_str(raw_str) ==
    IF raw_str = "ubuntu-18.04.ext4" THEN "GuestOs.UBUNTU_18_04" ELSE Exception

MachineConfig_str(self) ==
    CASE self = "MachineConfig.VCPU_1_MEM_1G" -> "1vcpu_1024mb"
      [] self = "MachineConfig.VCPU_2_MEM_1G" -> "2vcpu_1024mb"
      [] OTHER -> None

MachineConfig_from_str(raw_str) ==
    CASE raw_str = "1vcpu_1024mb.json" -> "MachineConfig.VCPU_1_MEM_1G"
      [] raw_str = "2vcpu_1024mb.json" -> "MachineConfig.VCPU_2_MEM_1G"
      [] OTHER -> Exception

Metric_str(self) ==
    CASE self = "Metric.CPU_TOTAL" -> "cpu_utilization_vcpus_total"
      [] self = "Metric.CPU_IO" -> "cpu_utilization_vmm"
      [] self = "Metric.THROUGHPUT" -> "throughput"
      [] OTHER -> None

Metric_from_str(raw_str) ==
    CASE raw_str = "cpu_utilization_vcpus_total" -> "Metric.CPU_TOTAL"
      [] raw_str = "cpu_utilization_vmm" -> "Metric.CPU_IO"
      [] raw_str = "throughput" -> "Metric.THROUGHPUT"
      [] OTHER -> Exception

KernelVersion_str(self) ==
    CASE self = "KernelVersion.KERNEL_5_10" -> "5.10"
      [] self = "KernelVersion.KERNEL_4_14" -> "4.14"
      [] OTHER -> None

KernelVersion_from_str(raw_str) ==
    CASE raw_str \in {"5.10", "vmlinux-5.10.bin"} -> "KernelVersion.KERNEL_5_10"
      [] raw_str \in {"4.14", "vmlinux-4.14.bin"} -> "KernelVersion.KERNEL_4_14"
      [] OTHER -> Exception


(***************************************************************************)
(* Baseline documents.  A document is described by a record p:             *)
(*   hosts   - whether the top level has the `hosts` key                   *)
(*   ncpus   - number of CPU entries                                       *)
(*   badcpu  - the CPU entry the fault is placed under                     *)
(*   fault   - what is wrong with, or missing from, the document           *)
(*   where   - index of the metric, kernel and configuration the fault is  *)
(*             placed at                                                   *)
(* RawDoc(p) is the value json.load returns for it.                        *)
(***************************************************************************)
MaxCpus == 2

UnknownFaults == {"config", "os", "kernel", "metric", "cpu"}
LeafFaults == {"nokind", "twokinds"}
DuplicateFaults == {"dupcpu", "aliaskernel"}
MissingFaults == {"nometric", "nokernel", "noos", "noconfig", "nocpu"}
Faults == {"none"} \cup UnknownFaults \cup LeafFaults \cup DuplicateFaults
              \cup MissingFaults

DocParams ==
    {p \in [hosts : BOOLEAN, ncpus : 1..MaxCpus, badcpu : 1..MaxCpus,
            fault : Faults, where : 1..2] : p.badcpu <= p.ncpus}

\* the CPU entries a document lists, in order: <<instance type, description>>
CpuTable ==
    << <<"m5d.metal", "Intel(R) Xeon(R) Platinum 8259CL CPU @ 2.50GHz">>,
       <<"m5d.metal", "Intel(R) Xeon(R) Platinum 8175M CPU @ 2.50GHz">>,
       <<"m6i.metal", "Intel(R) Xeon(R) Platinum 8375C CPU @ 2.90GHz">>,
       <<"m6a.metal", "AMD EPYC 7R13 48-Core Processor">> >>

MetricTokens == <<"throughput", "cpu_utilization_vmm", "cpu_utilization_vcpus_total">>
KernelTokens == <<"vmlinux-5.10.bin", "vmlinux-4.14.bin">>
KernelAliases == <<"4.14", "5.10">>
OsTokens == <<"ubuntu-18.04.ext4">>
ConfigTokens == <<"1vcpu_1024mb.json", "2vcpu_1024mb.json">>

\* test-type keys are sequences of characters, so that `"g2h" in type` is
\* the substring test
TestKeys ==
    << <<"w", "s", "1", "6", "k", "-", "h", "2", "g">>,
       <<"w", "s", "1", "6", "k", "-", "g", "2", "h">>,
       <<"w", "s", "2", "5", "6", "k", "-", "g", "2", "h">>,
       <<"w", "s", "1", "6", "k", "-", "b", "d">> >>

Without(s, i) == [j \in 1..(Len(s) - 1) |-> IF j < i THEN s[j] ELSE s[j + 1]]

\* the keys of one level: [tok, ix], ix being the position in the full list
LevelItems(base, hit, unknown, badtok, missing, where) ==
    LET full == [i \in 1..Len(base) |->
                    [tok |-> IF hit /\ unknown /\ i = where THEN badtok ELSE base[i],
                     ix |-> i]]
    IN  IF hit /\ missing THEN Without(full, where) ELSE full

Data(c, mi, ki, gi, si) ==
    [t \in 1..Len(TestKeys) |->
        <<TestKeys[t],
          [target |-> 10000 * t + 1000 * c + 100 * mi + 10 * ki + gi + 5 * (si - 1),
           delta_percentage |-> t + gi]>>]

LeafDoc(p, c, mi, ki, gi) ==
    LET hit == c = p.badcpu /\ mi = p.where /\ ki = p.where /\ gi = p.where
        kinds == IF hit /\ p.fault = "nokind" THEN <<>>
                 ELSE IF hit /\ p.fault = "twokinds" THEN <<"Avg", "Max">>
                 ELSE <<"Avg">>
    IN  [si \in 1..Len(kinds) |-> <<kinds[si], Data(c, mi, ki, gi, si)>>]

ConfigsDoc(p, c, mi, ki) ==
    LET hit == c = p.badcpu /\ mi = p.where /\ ki = p.where
        items == LevelItems(ConfigTokens, hit, p.fault = "config",
                            "4vcpu_2048mb.json", p.fault = "noconfig", p.where)
    IN  [i \in 1..Len(items) |-> <<items[i].tok, LeafDoc(p, c, mi, ki, items[i].ix)>>]

OsDoc(p, c, mi, ki) ==
    LET hit == c = p.badcpu /\ mi = p.where /\ ki = p.where
        items == LevelItems(OsTokens, hit, p.fault = "os",
                            "ubuntu-22.04.ext4", p.fault = "noos", 1)
    IN  [i \in 1..Len(items) |-> <<items[i].tok, ConfigsDoc(p, c, mi, ki)>>]

KernelsDoc(p, c, mi) ==
    LET hit == c = p.badcpu /\ mi = p.where
        base == IF hit /\ p.fault = "aliaskernel"
                THEN [i \in 1..Len(KernelTokens) |->
                        IF i = p.where THEN KernelAliases[i] ELSE KernelTokens[i]]
                ELSE KernelTokens
        items == LevelItems(base, hit, p.fault = "kernel",
                            "vmlinux-6.1.bin", p.fault = "nokernel", p.where)
    IN  [i \in 1..Len(items) |-> <<items[i].tok, OsDoc(p, c, mi, items[i].ix)>>]

BaselinesDoc(p, c) ==
    LET hit == c = p.badcpu
        items == LevelItems(MetricTokens, hit, p.fault = "metric",
                            "latency", p.fault = "nometric", p.where)
    IN  [i \in 1..Len(items) |-> <<items[i].tok, KernelsDoc(p, c, items[i].ix)>>]

\* the CPU entries of the document: [inst, model, c], c numbering the data
CpuList(p) ==
    LET listed == [c \in 1..p.ncpus |->
                     [inst |-> CpuTable[c][1],
                      model |-> IF c = p.badcpu /\ p.fault = "cpu"
                                THEN "Intel(R) Xeon(R) Gold 6240 CPU @ 2.60GHz"
                                ELSE CpuTable[c][2],
                      c |-> c]]
    IN  IF p.fault = "dupcpu"
        THEN Append(listed, [inst |-> CpuTable[p.badcpu][1],
                             model |-> CpuTable[p.badcpu][2], c |-> p.ncpus + 1])
        ELSE IF p.fault = "nocpu" THEN Without(listed, p.badcpu)
        ELSE listed

RECURSIVE InstanceTypes(_, _)
InstanceTypes(cpus, i) ==
    IF i = 0 THEN <<>>
    ELSE LET before == InstanceTypes(cpus, i - 1)
         IN  IF \E j \in 1..Len(before) : before[j] = cpus[i].inst
             THEN before ELSE Append(before, cpus[i].inst)

CpuDoc(p, e) == [model |-> e.model, baselines |-> BaselinesDoc(p, e.c)]

InstancesDoc(p) ==
    LET cpus == CpuList(p)
        types == InstanceTypes(cpus, Len(cpus))
    IN  [k \in 1..Len(types) |->
            <<types[k],
              [cpus |-> LET mine == SelectSeq(cpus, LAMBDA e : e.inst = types[k])
                        IN  [j \in 1..Len(mine) |-> CpuDoc(p, mine[j])]]>>]

MetaDoc == << <<"firmware", "v1">> >>

RawDoc(p) ==
    IF p.hosts
    THEN MetaDoc \o << <<"hosts", << <<"instances", InstancesDoc(p)>> >> >> >>
    ELSE MetaDoc

(***************************************************************************)
(* net_throughput.py: NetworkTCPThroughput.parser                          *)
(***************************************************************************)
\* Python's `sub in s` on strings
Contains(sub, s) ==
    \E k \in 0..(Len(s) - Len(sub)) : \A j \in 1..Len(sub) : s[k + j] = sub[j]

h2g_tag == <<"h", "2", "g">>
g2h_tag == <<"g", "2", "h">>
bd_tag == <<"b", "d">>

\* the items of `for type in data.keys() if tag in type`
Tagged(data, tag) == SelectSeq(data, LAMBDA item : Contains(tag, item[1]))

\* [data[type]["target"] for type in data.keys() if tag in type]
Targets(data, tag) ==
    Eval({[i \in 1..Len(kept) |-> kept[i][2].target] : kept \in {Tagged(data, tag)}})

\* the tolerances listed last key first
Deltas_reversed(data, tag) ==
    Eval({[i \in 1..Len(kept) |-> kept[Len(kept) + 1 - i][2].delta_percentage] :
            kept \in {Tagged(data, tag)}})

\* [data[type]["delta_percentage"] for type in data.keys() if tag in type]
Deltas(data, tag) ==
    Eval({[i \in 1..Len(kept) |-> kept[i][2].delta_percentage] :
            kept \in {Tagged(data, tag)}})

\* [type for type in data.keys() if tag in type]
Types(data, tag) ==
    Eval({[i \in 1..Len(kept) |-> kept[i][1]] : kept \in {Tagged(data, tag)}})

\* the container the extraction function fills for one configuration leaf
parser(data) ==
    << <<"host-to-guest",
         [delta_percentage |-> Deltas(data, h2g_tag),
          target |-> Targets(data, h2g_tag)]>>,
       <<"guest-to-host",
         [delta_percentage |-> Deltas(data, g2h_tag),
          target |-> Targets(data, g2h_tag)]>>,
       <<"bidirectional",
         [test_type |-> Types(data, bd_tag),
          delta_percentage |-> Deltas(data, bd_tag),
          target |-> Targets(data, bd_tag)]>> >>

(***************************************************************************)
(* parser.py: BaselineParser                                               *)
(***************************************************************************)
NoErr == "none"

\* the assertion only rejects an empty leaf
assert_single_kind_lax(metric_type) == Len(metric_type) >= 1

\* assert len(metric_type) == 1
assert_single_kind(metric_type) == Len(metric_type) = 1

\* The loops of _parse_data, innermost first.  acc is [err, out, calls]:
\* the exception raised so far, the dict being filled by this loop and the
\* raw paths of the leaves the extraction function has been invoked for.
\* Each *_body is one pass of a loop body on the item <<key, value>>; each
\* parse_* runs the loop from its i-th item and stops at an exception.
Fresh(acc) == [err |-> NoErr, out |-> <<>>, calls |-> acc.calls]

\* the body's closing `outer[from_str(key)] = inner`, from_str being called
\* once the inner loop has ended
Store(acc, inner, key) ==
    IF inner.err # NoErr
    THEN [acc EXCEPT !.err = inner.err, !.calls = inner.calls]
    ELSE IF Raised(key)
    THEN [acc EXCEPT !.err = key, !.calls = inner.calls]
    ELSE [err |-> NoErr, out |-> Put(acc.out, key, inner.out), calls |-> inner.calls]

config_body(acc, item, path) ==
    LET metric_type == Keys(item[2])
        config == MachineConfig_from_str(item[1])
    IN  IF ~assert_single_kind(metric_type)
        THEN [acc EXCEPT !.err = AssertionError]
        ELSE IF Raised(config)
        THEN [acc EXCEPT !.err = config]
        ELSE [err |-> NoErr,
              out |-> Put(acc.out, config, parser(Get(item[2], metric_type[1]))),
              calls |-> Append(acc.calls, Append(path, item[1]))]

RECURSIVE parse_configs(_, _, _, _)
parse_configs(configs, path, i, acc) ==
    IF acc.err # NoErr \/ i > Len(configs) THEN acc
    ELSE Eval({parse_configs(configs, path, i + 1, next) :
                 next \in {config_body(acc, configs[i], path)}})

userspace_body(acc, item, path) ==
    Eval({Store(acc, inner, GuestOs_from_str(item[1])) :
            inner \in {parse_configs(item[2], Append(path, item[1]), 1, Fresh(acc))}})

RECURSIVE parse_userspaces(_, _, _, _)
parse_userspaces(userspaces, path, i, acc) ==
    IF acc.err # NoErr \/ i > Len(userspaces) THEN acc
    ELSE Eval({parse_userspaces(userspaces, path, i + 1, next) :
                 next \in {userspace_body(acc, userspaces[i], path)}})

guest_kernel_body(acc, item, path) ==
    Eval({Store(acc, inner, KernelVersion_from_str(item[1])) :
            inner \in {parse_userspaces(item[2], Append(path, item[1]), 1, Fresh(acc))}})

RECURSIVE parse_guest_kernels(_, _, _, _)
parse_guest_kernels(kernels, path, i, acc) ==
    IF acc.err # NoErr \/ i > Len(kernels) THEN acc
    ELSE Eval({parse_guest_kernels(kernels, path, i + 1, next) :
                 next \in {guest_kernel_body(acc, kernels[i], path)}})

metric_body(acc, item, path) ==
    Eval({Store(acc, inner, Metric_from_str(item[1])) :
            inner \in {parse_guest_kernels(item[2], Append(path, item[1]), 1, Fresh(acc))}})

RECURSIVE parse_metrics(_, _, _, _)
parse_metrics(baselines, path, i, acc) ==
    IF acc.err # NoErr \/ i > Len(baselines) THEN acc
    ELSE Eval({parse_metrics(baselines, path, i + 1, next) :
                 next \in {metric_body(acc, baselines[i], path)}})

\* the (instance_type, cpu) pairs in the order the two outer loops visit them
RECURSIVE CpuEntries(_, _)
CpuEntries(instances, k) ==
    IF k > Len(instances) THEN <<>>
    ELSE [j \in 1..Len(instances[k][2].cpus) |->
             [instance_type |-> instances[k][1], cpu |-> instances[k][2].cpus[j]]]
         \o CpuEntries(instances, k + 1)

\* one pass of the body of `for cpu in instance_data['cpus']`, n numbering
\* the pass; state is [err, instances, calls]
parse_cpu(state, entry, n) ==
    Eval({[err |-> stored.err, instances |-> stored.out, calls |-> stored.calls] :
            stored \in
              {Store([err |-> NoErr, out |-> state.instances, calls |-> state.calls],
                     inner, CpuModel_from_str(entry.instance_type, entry.cpu.model)) :
                 inner \in {parse_metrics(entry.cpu.baselines, <<n>>, 1,
                                          [err |-> NoErr, out |-> <<>>,
                                           calls |-> state.calls])}}})

RECURSIVE parse_data_from(_, _, _)
parse_data_from(entries, n, state) ==
    IF state.err # NoErr \/ n > Len(entries) THEN state
    ELSE Eval({parse_data_from(entries, n + 1, next) :
                 next \in {parse_cpu(state, entries[n], n)}})

\* BaselineParser._parse_data(parser) on the object's _baselines
_parse_data(baselines) ==
    Eval({parse_data_from(entries, 1, [err |-> NoErr, instances |-> <<>>, calls |-> <<>>]) :
            entries \in {CpuEntries(baselines, 1)}})

\* raw.get("hosts", {}) in place of the membership test
BaselineParser_init_lenient(raw, hk, git_version) ==
    [err |-> NoErr,
     _meta |-> SelectSeq(raw, LAMBDA item : item[1] # "hosts"),
     _baselines |-> IF Has(raw, "hosts") THEN Get(Get(raw, "hosts"), "instances") ELSE <<>>,
     _instances |-> <<>>,
     _hk |-> hk,
     _git_version |-> git_version]

\* BaselineParser.__init__ after json.load: the new object's fields, or the
\* exception raised
BaselineParser_init(raw, hk, git_version) ==
    IF ~Has(raw, "hosts")
    THEN [err |-> Exception, _meta |-> <<>>, _baselines |-> <<>>,
          _instances |-> <<>>, _hk |-> None, _git_version |-> None]
    ELSE [err |-> NoErr,
          _meta |-> SelectSeq(raw, LAMBDA item : item[1] # "hosts"),
          _baselines |-> Get(Get(raw, "hosts"), "instances"),
          _instances |-> <<>>,
          _hk |-> hk,
          _git_version |-> git_version]

(***************************************************************************)
(* Conversions of types.py as steps: str() of a member, then a parse       *)
(***************************************************************************)
ParseFunctions == {"CpuModel.from_codename", "CpuModel.from_str", "GuestOs.from_str",
                   "MachineConfig.from_str", "Metric.from_str",
                   "KernelVersion.from_str"}

Members == CpuModel \cup GuestOs \cup MachineConfig \cup Metric \cup KernelVersion

\* the parsing function that reads back a member's display string
ParserOf(v) ==
    CASE v \in CpuModel -> "CpuModel.from_codename"
      [] v \in GuestOs -> "GuestOs.from_str"
      [] v \in MachineConfig -> "MachineConfig.from_str"
      [] v \in Metric -> "Metric.from_str"
      [] v \in KernelVersion -> "KernelVersion.from_str"

\* str(v)
StrOf(v) ==
    CASE v \in CpuModel -> CpuModel_str(v)
      [] v \in GuestOs -> GuestOs_str(v)
      [] v \in MachineConfig -> MachineConfig_str(v)
      [] v \in Metric -> Metric_str(v)
      [] v \in KernelVersion -> KernelVersion_str(v)

Apply(f, argv) ==
    CASE f = "CpuModel.from_codename" -> CpuModel_from_codename(argv[1])
      [] f = "CpuModel.from_str" -> CpuModel_from_str(argv[1], argv[2])
      [] f = "GuestOs.from_str" -> GuestOs_from_str(argv[1])
      [] f = "MachineConfig.from_str" -> MachineConfig_from_str(argv[1])
      [] f = "Metric.from_str" -> Metric_from_str(argv[1])
      [] f = "KernelVersion.from_str" -> KernelVersion_from_str(argv[1])

Tokens ==
    {"SkyLake", "CascadeLake", "IceLake", "Milan", "Graviton2", "Graviton3",
     "Graviton4", "skylake", "SKYLAKE", "Graviton5",
     "Ubuntu 18.04", "ubuntu-18.04.ext4", "ubuntu-22.04.ext4",
     "1vcpu_1024mb", "2vcpu_1024mb", "1vcpu_1024mb.json", "2vcpu_1024mb.json",
     "4vcpu_2048mb.json",
     "cpu_utilization_vcpus_total", "cpu_utilization_vmm", "throughput", "latency",
     "5.10", "4.14", "vmlinux-5.10.bin", "vmlinux-4.14.bin", "vmlinux-6.1.bin", "6.1"}

InstanceTypeTokens == {"m5d.metal", "m6i.metal", "m6a.metal", "m6g.metal", "c7g.metal"}

CpuDescriptions ==
    {"Intel(R) Xeon(R) Platinum 8175M CPU @ 2.50GHz",
     "Intel(R) Xeon(R) Platinum 8259CL CPU @ 2.50GHz",
     "Intel(R) Xeon(R) Platinum 8375C CPU @ 2.90GHz",
     "AMD EPYC 7R13 48-Core Processor", "ARM_NEOVERSE_N1", "ARM_NEOVERSE_V1",
     "Intel(R) Xeon(R) Gold 6240 CPU @ 2.60GHz"}

IdleDoc == [hosts |-> FALSE, ncpus |-> 1, badcpu |-> 1, fault |-> "none", where |-> 1]

Unbound == [err |-> "unbound", _meta |-> <<>>, _baselines |-> <<>>,
            _instances |-> <<>>, _host_kernel |-> None, _git_version |-> None]

TypesIdle == fn = None /\ val = None /\ text = <<>> /\ res = None /\ tpc = "idle"

LoadIdle ==
    /\ doc = IdleDoc /\ lpc = "idle" /\ this = Unbound /\ cursor = 0
    /\ calls = <<>> /\ load_err = NoErr /\ result = Unbound

NoLeaf == [target |-> 0, delta_percentage |-> 0]

ImgIdle ==
    /\ basis_leaf = NoLeaf /\ comparison_leaf = NoLeaf /\ report = <<>>
    /\ ipc = "idle" /\ key_ix = 0 /\ figures = <<>> /\ img_err = NoErr

QueryIdle == q_log = <<>>

PipeIdle ==
    /\ perf_test = <<>> /\ pipe_args = <<>> /\ group_steps = <<>> /\ t_ix = 0
    /\ pipe_pc = "idle" /\ pipe_err = NoErr

ExtractIdle == payload = <<>> /\ container = <<>> /\ xpc = "idle"

NoRequest == [sub |-> None, tests |-> <<>>, kernels |-> <<>>,
              guest_kernels |-> <<>>, codenames |-> <<>>]

NoFailure == [exc |-> NoErr, at |-> None]

MainIdle ==
    /\ tool = None /\ request = NoRequest /\ mpc = "idle" /\ handler = None
    /\ m_ix = 0 /\ h_ix = 0 /\ g_ix = 0 /\ main_err = NoFailure

TypesInit ==
    /\ res = None
    /\ \/ /\ val \in Members
          /\ fn = ParserOf(val)
          /\ text = <<>>
          /\ tpc = "member"
       \/ /\ val = None
          /\ fn \in ParseFunctions \ {"CpuModel.from_str"}
          /\ text \in {<<t>> : t \in Tokens}
          /\ tpc = "token"
       \/ /\ val = None
          /\ fn = "CpuModel.from_str"
          /\ text \in {<<i, m>> : i \in InstanceTypeTokens, m \in CpuDescriptions}
          /\ tpc = "token"

\* str(val): the display string becomes the token to parse
Display ==
    /\ tpc = "member"
    /\ text' = <<StrOf(val)>>
    /\ tpc' = "token"
    /\ UNCHANGED <<fn, val, res, exceptTypes>>

\* fn(*text)
Parse ==
    /\ tpc = "token"
    /\ res' = Apply(fn, text)
    /\ tpc' = "parsed"
    /\ UNCHANGED <<fn, val, text, exceptTypes>>

(***************************************************************************)
(* NetworkTCPThroughput.__init__ as steps                                  *)
(***************************************************************************)
DefaultHostKernel == "KernelVersion.KERNEL_5_10"

\* the exception of _parse_data is swallowed and the object handed out
Constructed_partial(obj, err) == obj

\* what the expression NetworkTCPThroughput(...) leaves with its caller: the
\* object when __init__ returned, nothing when it raised
Constructed(obj, err) == IF err = NoErr THEN obj ELSE Unbound

LoadInit ==
    /\ doc \in DocParams
    /\ lpc = "start" /\ this = Unbound /\ cursor = 0
    /\ calls = <<>> /\ load_err = NoErr /\ result = Unbound

\* super().__init__(baselines_file, host_kernel, git_version)
Load_init ==
    /\ lpc = "start"
    /\ \E raw \in {RawDoc(doc)} :
         \E obj \in {BaselineParser_init(raw, DefaultHostKernel, "main")} :
           IF obj.err # NoErr
           THEN /\ lpc' = "raised"
                /\ load_err' = obj.err
                /\ result' = Constructed(this, obj.err)
                /\ UNCHANGED <<this, cursor>>
           ELSE /\ lpc' = "parsing"
                /\ this' = obj
                /\ cursor' = 1
                /\ UNCHANGED <<load_err, result>>
    /\ UNCHANGED <<doc, calls, exceptLoad>>

\* one CPU entry of super()._parse_data(NetworkTCPThroughput.parser)
Load_parse_cpu ==
    /\ lpc = "parsing"
    /\ \E entries \in {CpuEntries(this._baselines, 1)} :
           /\ cursor <= Len(entries)
           /\ \E st \in {parse_cpu([err |-> NoErr, instances |-> this._instances,
                                     calls |-> calls], entries[cursor], cursor)} :
                  /\ calls' = st.calls
                  /\ IF st.err # NoErr
                     THEN /\ lpc' = "raised"
                          /\ load_err' = st.err
                          /\ result' = Constructed(this, st.err)
                          /\ UNCHANGED <<this, cursor>>
                     ELSE /\ this' = [this EXCEPT !._instances = st.instances]
                          /\ cursor' = cursor + 1
                          /\ UNCHANGED <<lpc, load_err, result>>
    /\ UNCHANGED <<doc, exceptLoad>>

\* _parse_data and __init__ return
Load_return ==
    /\ lpc = "parsing"
    /\ cursor > Len(CpuEntries(this._baselines, 1))
    /\ lpc' = "returned"
    /\ result' = Constructed(this, NoErr)
    /\ UNCHANGED <<doc, this, cursor, calls, load_err, exceptLoad>>

(***************************************************************************)
(* git worktree, as the tools use it: the path is the revision given       *)
(***************************************************************************)
Hashes == {"a1f3", "b2e4"}

\* `git worktree add <path> <commit-ish>` succeeds when the commit-ish names
\* a revision and nothing exists at the path
WorktreeAddOk(wts, path) == path \in Hashes /\ path \notin wts

\* `git worktree remove <path>` succeeds when the worktree exists
WorktreeRemoveOk(wts, path) == path \in wts

Event(op, path) == [op |-> op, path |-> path]

GitIdle == worktrees = {} /\ git_log = <<>>

(***************************************************************************)
(* compare_baselines/main.py: cmd_commit and cmd_latest as steps.  The     *)
(* comparator (utils.comparator) may raise from its constructor, from      *)
(* compare and from dump_json.                                             *)
(***************************************************************************)
NoArgs == [source |-> None, target |-> None]

CmdIdle == cmd = None /\ args = NoArgs /\ head = None /\ cpc = "idle" /\ cmd_err = NoErr

CmdInit ==
    /\ GitIdle
    /\ head \in Hashes
    /\ cpc = "start" /\ cmd_err = NoErr
    /\ \/ /\ cmd = "commit"
          /\ args \in [source : Hashes \cup {"nope"},
                       target : Hashes \cup {"nope", None}]
       \/ /\ cmd = "latest"
          /\ args = NoArgs

CmdRaise(err) ==
    /\ cpc' = "raised"
    /\ cmd_err' = err

\* if args.target is None: args.target = <hash of HEAD>
cmd_commit_target ==
    /\ cmd = "commit" /\ cpc = "start"
    /\ args' = [args EXCEPT !.target = IF @ = None THEN head ELSE @]
    /\ cpc' = "add_source"
    /\ UNCHANGED <<cmd, head, cmd_err, gitVars, exceptCmd>>

cmd_commit_add_source ==
    /\ cmd = "commit" /\ cpc = "add_source"
    /\ IF WorktreeAddOk(worktrees, args.source)
       THEN /\ worktrees' = worktrees \cup {args.source}
            /\ git_log' = Append(git_log, Event("add", args.source))
            /\ cpc' = "add_target"
            /\ UNCHANGED cmd_err
       ELSE /\ CmdRaise(CalledProcessError)
            /\ UNCHANGED gitVars
    /\ UNCHANGED <<cmd, args, head, exceptCmd>>

cmd_commit_add_target ==
    /\ cmd = "commit" /\ cpc = "add_target"
    /\ IF WorktreeAddOk(worktrees, args.target)
       THEN /\ worktrees' = worktrees \cup {args.target}
            /\ git_log' = Append(git_log, Event("add", args.target))
            /\ cpc' = "construct"
            /\ UNCHANGED cmd_err
       ELSE /\ CmdRaise(CalledProcessError)
            /\ UNCHANGED gitVars
    /\ UNCHANGED <<cmd, args, head, exceptCmd>>

\* comp = DirectoryComparator(...)
cmd_commit_construct ==
    /\ cmd = "commit" /\ cpc = "construct"
    /\ \E ok \in BOOLEAN :
         IF ok
         THEN /\ git_log' = Append(git_log, Event("construct", ""))
              /\ cpc' = "remove_source"
              /\ UNCHANGED cmd_err
         ELSE /\ CmdRaise(Exception)
              /\ UNCHANGED git_log
    /\ UNCHANGED <<cmd, args, head, worktrees, exceptCmd>>

cmd_commit_remove_source ==
    /\ cmd = "commit" /\ cpc = "remove_source"
    /\ IF WorktreeRemoveOk(worktrees, args.source)
       THEN /\ worktrees' = worktrees \ {args.source}
            /\ git_log' = Append(git_log, Event("remove", args.source))
            /\ cpc' = "remove_target"
            /\ UNCHANGED cmd_err
       ELSE /\ CmdRaise(CalledProcessError)
            /\ UNCHANGED gitVars
    /\ UNCHANGED <<cmd, args, head, exceptCmd>>

cmd_commit_remove_target ==
    /\ cmd = "commit" /\ cpc = "remove_target"
    /\ IF WorktreeRemoveOk(worktrees, args.target)
       THEN /\ worktrees' = worktrees \ {args.target}
            /\ git_log' = Append(git_log, Event("remove", args.target))
            /\ cpc' = "compare"
            /\ UNCHANGED cmd_err
       ELSE /\ CmdRaise(CalledProcessError)
            /\ UNCHANGED gitVars
    /\ UNCHANGED <<cmd, args, head, exceptCmd>>

\* latest_hash = <hash of HEAD>
cmd_latest_hash ==
    /\ cmd = "latest" /\ cpc = "start"
    /\ args' = [args EXCEPT !.source = head]
    /\ cpc' = "add_latest"
    /\ UNCHANGED <<cmd, head, cmd_err, gitVars, exceptCmd>>

cmd_latest_add ==
    /\ cmd = "latest" /\ cpc = "add_latest"
    /\ IF WorktreeAddOk(worktrees, args.source)
       THEN /\ worktrees' = worktrees \cup {args.source}
            /\ git_log' = Append(git_log, Event("add", args.source))
            /\ cpc' = "construct"
            /\ UNCHANGED cmd_err
       ELSE /\ CmdRaise(CalledProcessError)
            /\ UNCHANGED gitVars
    /\ UNCHANGED <<cmd, args, head, exceptCmd>>

cmd_latest_construct ==
    /\ cmd = "latest" /\ cpc = "construct"
    /\ \E ok \in BOOLEAN :
         IF ok
         THEN /\ git_log' = Append(git_log, Event("construct", ""))
              /\ cpc' = "remove_latest"
              /\ UNCHANGED cmd_err
         ELSE /\ CmdRaise(Exception)
              /\ UNCHANGED git_log
    /\ UNCHANGED <<cmd, args, head, worktrees, exceptCmd>>

cmd_latest_remove ==
    /\ cmd = "latest" /\ cpc = "remove_latest"
    /\ IF WorktreeRemoveOk(worktrees, args.source)
       THEN /\ worktrees' = worktrees \ {args.source}
            /\ git_log' = Append(git_log, Event("remove", args.source))
            /\ cpc' = "compare"
            /\ UNCHANGED cmd_err
       ELSE /\ CmdRaise(CalledProcessError)
            /\ UNCHANGED gitVars
    /\ UNCHANGED <<cmd, args, head, exceptCmd>>

\* comp.compare(args.auxiliary), in either handler
cmd_compare ==
    /\ cmd \in {"commit", "latest"} /\ cpc = "compare"
    /\ \E ok \in BOOLEAN :
         IF ok
         THEN /\ git_log' = Append(git_log, Event("compare:returned", ""))
              /\ cpc' = "dump_json"
              /\ UNCHANGED cmd_err
         ELSE /\ git_log' = Append(git_log, Event("compare:raised", ""))
              /\ CmdRaise(Exception)
    /\ UNCHANGED <<cmd, args, head, worktrees, exceptCmd>>

\* comp.dump_json(args.output), in either handler
cmd_dump_json ==
    /\ cmd \in {"commit", "latest"} /\ cpc = "dump_json"
    /\ \E ok \in BOOLEAN :
         IF ok
         THEN /\ git_log' = Append(git_log, Event("dump_json", ""))
              /\ cpc' = "done"
              /\ UNCHANGED cmd_err
         ELSE /\ CmdRaise(Exception)
              /\ UNCHANGED git_log
    /\ UNCHANGED <<cmd, args, head, worktrees, exceptCmd>>

NextCompare ==
    \/ cmd_commit_target
    \/ cmd_commit_add_source
    \/ cmd_commit_add_target
    \/ cmd_commit_construct
    \/ cmd_commit_remove_source
    \/ cmd_commit_remove_target
    \/ cmd_latest_hash
    \/ cmd_latest_add
    \/ cmd_latest_construct
    \/ cmd_latest_remove
    \/ cmd_compare
    \/ cmd_dump_json

(***************************************************************************)
(* The tree of a revision and the files the plotting code opens.  A path   *)
(* is a sequence of components, a component a sequence of the strings      *)
(* that are concatenated to form it.                                       *)
(***************************************************************************)
ConfigsPath == << <<"tests">>, <<"integration_tests">>, <<"performance">>, <<"configs">> >>

\* test_network_tcp_throughput_config_{host_kernel}.json
ConfigFileName(hk) ==
    <<"test_network_tcp_throughput_config_", KernelVersion_str(hk), ".json">>

\* net_throughput.py:92, the f-string bound to data_file
data_file(worktree, hk) == << <<worktree>> >> \o ConfigsPath \o <<ConfigFileName(hk)>>

\* net_throughput.py:23, f"{baseline_dir}/test_..._{host_kernel}.json"
baselines_file(baseline_dir, hk) == baseline_dir \o <<ConfigFileName(hk)>>

\* the regular files of a revision's tree, relative to its root: the
\* configuration documents lie directly in configs/ ("flat"), or each in a
\* directory of its own name ("nested")
FilesOf(layout) ==
    IF layout = "flat"
    THEN {ConfigsPath \o <<ConfigFileName(k)>> : k \in KernelVersion}
    ELSE {ConfigsPath \o <<ConfigFileName(k), ConfigFileName(k)>> : k \in KernelVersion}

\* open(path): the document read, or OSError when no regular file is there
open(path, wts, trees) ==
    LET root == path[1][1]
    IN  IF root \in wts /\ Tail(path) \in FilesOf(trees.layout)
        THEN [err |-> NoErr, doc |-> trees.docs[root]]
        ELSE [err |-> OSError, doc |-> IdleDoc]

\* NetworkTCPThroughput(baseline_dir, host_kernel, git_version) as one step
NetworkTCPThroughput_init(baseline_dir, hk, git_version, wts, trees) ==
    LET fp == open(baselines_file(baseline_dir, hk), wts, trees)
    IN  IF fp.err # NoErr THEN [err |-> fp.err, obj |-> Unbound]
        ELSE Eval({IF obj.err # NoErr THEN [err |-> obj.err, obj |-> Unbound]
                   ELSE Eval({[err |-> st.err,
                               obj |-> Constructed([obj EXCEPT !._instances = st.instances],
                                                   st.err)] :
                                st \in {_parse_data(obj._baselines)}}) :
                     obj \in {Eval({BaselineParser_init(raw, hk, git_version) :
                                      raw \in {RawDoc(fp.doc)}})}})

(***************************************************************************)
(* Queries of a loaded parser; a lookup is [err, v], err being KeyError    *)
(* once a subscript missed                                                 *)
(***************************************************************************)
Found(v) == [err |-> NoErr, v |-> v]

Subscript(r, k) ==
    Eval({IF x.err # NoErr THEN x
          ELSE IF Has(x.v, k) THEN Found(Get(x.v, k))
          ELSE [err |-> KeyError, v |-> <<>>] : x \in {r}})

cpu_models(obj) == obj._instances

metrics(obj, instance_type) == Subscript(Found(cpu_models(obj)), instance_type)

guest_kernels(obj, instance_type, metric) ==
    Subscript(metrics(obj, instance_type), metric)

guest_rootfs(obj, instance_type, metric, gk) ==
    Subscript(guest_kernels(obj, instance_type, metric), gk)

machine_configs(obj, instance_type, metric, gk, rootfs) ==
    Subscript(guest_rootfs(obj, instance_type, metric, gk), rootfs)

guest_to_host_target(obj, instance_type, metric, gk, rootfs, machine_config) ==
    Eval({IF direction.err # NoErr THEN direction ELSE Found(direction.v.target) :
            direction \in
              {Subscript(Subscript(machine_configs(obj, instance_type, metric, gk, rootfs),
                                   machine_config),
                         "guest-to-host")}})

(***************************************************************************)
(* git_worktree.py and the loop of _plot_network_tcp_throughput            *)
(***************************************************************************)
MaxRefs == 2

TESTS == <<"tcp-p1024K-ws16k", "tcp-p1024K-ws256k", "tcp-p1024K-wsDEFAULT",
           "tcp-pDEFAULT-ws16k", "tcp-pDEFAULT-ws256k", "tcp-pDEFAULT-wsDEFAULT">>

GitRefs == {"main", "v1.0", "nope"}

\* `git rev-parse <ref>`: the hash, or None when the ref names nothing
RevParse(ref) ==
    CASE ref = "main" -> "a1f3"
      [] ref = "v1.0" -> "b2e4"
      [] OTHER -> None

\* the documents found in the revisions
PlotDocs ==
    {p \in DocParams :
        /\ p.hosts /\ p.ncpus = 1 /\ p.badcpu = 1
        /\ \/ p.fault \in {"none", "twokinds"} /\ p.where = 1
           \/ p.fault \in {"nometric", "nokernel"}
           \/ p.fault \in {"noos", "noconfig"} /\ p.where = 2}

\* a repository: how its revisions lay out the configuration documents, and
\* the document each revision holds
Repos == [layout : {"flat", "nested"}, docs : [Hashes -> PlotDocs]]

NoRepo == [layout |-> "flat", docs |-> <<>>]

EmptySeries == [metric |-> <<>>, io_util |-> <<>>, total_util |-> <<>>]

PlotIdle ==
    /\ git_versions = <<>> /\ machine = None /\ host_kernel = None
    /\ guest_kernel = None /\ repo = NoRepo /\ ppc = "idle" /\ idx = 0
    /\ gw_hash = None /\ parser_obj = Unbound /\ found_git_versions = <<>>
    /\ guest_to_host = EmptySeries /\ pending = NoErr /\ plot_err = NoErr

PlotInit ==
    /\ git_versions \in UNION {[1..n -> GitRefs] : n \in 0..MaxRefs}
    /\ machine \in {"CpuModel.CASCADE_LAKE", "CpuModel.MILAN"}
    /\ host_kernel = DefaultHostKernel
    /\ guest_kernel \in KernelVersion
    /\ repo \in Repos
    /\ ppc = "for" /\ idx = 1
    /\ gw_hash = None /\ parser_obj = Unbound /\ found_git_versions = <<>>
    /\ guest_to_host = EmptySeries /\ pending = NoErr /\ plot_err = NoErr

\* for (test, value) in zip(TESTS, values): series[test].append(value),
\* series being a defaultdict of lists
RECURSIVE ZipAppend(_, _, _)
ZipAppend(series, values, i) ==
    IF i > Len(TESTS) \/ i > Len(values) THEN series
    ELSE Eval({ZipAppend(next, values, i + 1) :
                 next \in {Put(series, TESTS[i],
                               Append(IF Has(series, TESTS[i])
                                      THEN Get(series, TESTS[i]) ELSE <<>>,
                                      values[i]))}})

\* GitWorktree(git_ref).__enter__()
GitWorktree_enter ==
    /\ ppc = "for" /\ idx <= Len(git_versions)
    /\ LET hash == RevParse(git_versions[idx])
       IN  IF hash # None /\ WorktreeAddOk(worktrees, hash)
           THEN /\ worktrees' = worktrees \cup {hash}
                /\ git_log' = Append(git_log, Event("add", hash))
                /\ gw_hash' = hash
                /\ ppc' = "load"
                /\ UNCHANGED plot_err
           ELSE /\ ppc' = "raised"
                /\ plot_err' = CalledProcessError
                /\ UNCHANGED <<gitVars, gw_hash>>
    /\ UNCHANGED <<git_versions, machine, host_kernel, guest_kernel, repo, idx,
                   parser_obj, found_git_versions, guest_to_host, pending,
                   exceptPlot>>

\* data_file = ...; parser = NetworkTCPThroughput(data_file, host_kernel, hash)
\* where `hash` is the builtin function
plot_load ==
    /\ ppc = "load"
    /\ \E made \in {NetworkTCPThroughput_init(data_file(gw_hash, host_kernel),
                                              host_kernel, "<built-in function hash>",
                                              worktrees, repo)} :
           IF made.err # NoErr
           THEN /\ pending' = made.err
                /\ ppc' = "exit"
                /\ UNCHANGED parser_obj
           ELSE /\ parser_obj' = made.obj
                /\ ppc' = "collect"
                /\ UNCHANGED pending
    /\ UNCHANGED <<git_versions, machine, host_kernel, guest_kernel, repo, idx,
                   gw_hash, found_git_versions, guest_to_host, plot_err,
                   gitVars, exceptPlot>>

\* the lambda plot_network_tcp_throughput passes as data_parser
data_parser(obj, m, gk) ==
    <<guest_to_host_target(obj, m, "Metric.THROUGHPUT", gk,
                           "GuestOs.UBUNTU_18_04", "MachineConfig.VCPU_2_MEM_1G"),
      guest_to_host_target(obj, m, "Metric.CPU_IO", gk,
                           "GuestOs.UBUNTU_18_04", "MachineConfig.VCPU_2_MEM_1G"),
      guest_to_host_target(obj, m, "Metric.CPU_TOTAL", gk,
                           "GuestOs.UBUNTU_18_04", "MachineConfig.VCPU_2_MEM_1G")>>

\* the rest of the with-block: the two membership tests, the append to
\* found_git_versions, data_parser(parser) and the three zip loops
plot_collect ==
    /\ ppc = "collect"
    /\ ppc' = "exit"
    /\ \E kernels \in {guest_kernels(parser_obj, machine, "Metric.THROUGHPUT")},
          got \in {data_parser(parser_obj, machine, guest_kernel)} :
           IF ~Has(cpu_models(parser_obj), machine)
           THEN /\ pending' = "continue"
                /\ UNCHANGED <<found_git_versions, guest_to_host>>
           ELSE IF kernels.err # NoErr
           THEN /\ pending' = kernels.err
                /\ UNCHANGED <<found_git_versions, guest_to_host>>
           ELSE IF ~Has(kernels.v, guest_kernel)
           THEN /\ pending' = "continue"
                /\ UNCHANGED <<found_git_versions, guest_to_host>>
           ELSE /\ found_git_versions' = Append(found_git_versions, git_versions[idx])
                /\ IF \E j \in 1..3 : got[j].err # NoErr
                   THEN /\ pending' = KeyError
                        /\ UNCHANGED guest_to_host
                   ELSE /\ pending' = NoErr
                        /\ guest_to_host' =
                             [metric |-> ZipAppend(guest_to_host.metric, got[1].v, 1),
                              io_util |-> ZipAppend(guest_to_host.io_util, got[2].v, 1),
                              total_util |-> ZipAppend(guest_to_host.total_util, got[3].v, 1)]
    /\ UNCHANGED <<git_versions, machine, host_kernel, guest_kernel, repo, idx,
                   gw_hash, parser_obj, plot_err, gitVars, exceptPlot>>

\* __exit__ skips the removal when the block raised
GitWorktree_exit_leaky ==
    /\ ppc = "exit"
    /\ IF Raised(pending)
       THEN /\ ppc' = "raised"
            /\ plot_err' = pending
            /\ UNCHANGED <<gitVars, idx>>
       ELSE /\ worktrees' = worktrees \ {gw_hash}
            /\ git_log' = Append(git_log, Event("remove", gw_hash))
            /\ idx' = idx + 1
            /\ ppc' = "for"
            /\ UNCHANGED plot_err
    /\ pending' = NoErr
    /\ UNCHANGED <<git_versions, machine, host_kernel, guest_kernel, repo,
                   gw_hash, parser_obj, found_git_versions, guest_to_host,
                   exceptPlot>>

\* GitWorktree.__exit__(*args), then the block's pending exit: the exception
\* goes on (the method returns None), `continue` and the normal end go to the
\* next git_ref
GitWorktree_exit ==
    /\ ppc = "exit"
    /\ IF WorktreeRemoveOk(worktrees, gw_hash)
       THEN /\ worktrees' = worktrees \ {gw_hash}
            /\ git_log' = Append(git_log, Event("remove", gw_hash))
            /\ IF Raised(pending)
               THEN /\ ppc' = "raised"
                    /\ plot_err' = pending
                    /\ UNCHANGED idx
               ELSE /\ idx' = idx + 1
                    /\ ppc' = "for"
                    /\ UNCHANGED plot_err
       ELSE /\ ppc' = "raised"
            /\ plot_err' = CalledProcessError
            /\ UNCHANGED <<gitVars, idx>>
    /\ pending' = NoErr
    /\ UNCHANGED <<git_versions, machine, host_kernel, guest_kernel, repo,
                   gw_hash, parser_obj, found_git_versions, guest_to_host,
                   exceptPlot>>

\* after the loop: the bars are drawn and the figure saved
plot_finish ==
    /\ ppc = "for" /\ idx > Len(git_versions)
    /\ ppc' = "done"
    /\ UNCHANGED <<git_versions, machine, host_kernel, guest_kernel, repo, idx,
                   gw_hash, parser_obj, found_git_versions, guest_to_host,
                   pending, plot_err, gitVars, exceptPlot>>

NextPlot ==
    \/ GitWorktree_enter
    \/ plot_load
    \/ plot_collect
    \/ GitWorktree_exit
    \/ plot_finish

InitPlot ==
    /\ PlotInit /\ GitIdle /\ CmdIdle /\ TypesIdle /\ LoadIdle /\ MainIdle
    /\ ImgIdle /\ QueryIdle /\ PipeIdle /\ ExtractIdle

SpecPlot == InitPlot /\ [][NextPlot]_vars

InitCompare ==
    /\ CmdInit /\ TypesIdle /\ LoadIdle /\ PlotIdle /\ MainIdle
    /\ ImgIdle /\ QueryIdle /\ PipeIdle /\ ExtractIdle

SpecCompare == InitCompare /\ [][NextCompare]_vars

Init ==
    /\ GitIdle /\ CmdIdle /\ PlotIdle /\ MainIdle
    /\ ImgIdle /\ QueryIdle /\ PipeIdle /\ ExtractIdle
    /\ \/ TypesInit /\ LoadIdle
       \/ LoadInit /\ TypesIdle

Next ==
    \/ Display
    \/ Parse
    \/ Load_init
    \/ Load_parse_cpu
    \/ Load_return

Spec == Init /\ [][Next]_vars

(***************************************************************************)
(* What a raw document holds, read off the document itself                 *)
(***************************************************************************)
KnownCpuPairs == {MODELCODE[i][1] : i \in 1..Len(MODELCODE)}
KnownCodenames == {"SkyLake", "CascadeLake", "IceLake", "Milan", "Graviton2",
                   "Graviton3", "Graviton4", "skylake", "SKYLAKE"}
KnownOsTokens == {"ubuntu-18.04.ext4"}
KnownConfigTokens == {"1vcpu_1024mb.json", "2vcpu_1024mb.json"}
KnownMetricTokens == {"cpu_utilization_vcpus_total", "cpu_utilization_vmm", "throughput"}
KnownKernelTokens == {"5.10", "vmlinux-5.10.bin", "4.14", "vmlinux-4.14.bin"}

\* the external token handed to f has a canonical mapping
Mapped(f, argv) ==
    CASE f = "CpuModel.from_codename" -> argv[1] \in KnownCodenames
      [] f = "CpuModel.from_str" -> <<argv[1], argv[2]>> \in KnownCpuPairs
      [] f = "GuestOs.from_str" -> argv[1] \in KnownOsTokens
      [] f = "MachineConfig.from_str" -> argv[1] \in KnownConfigTokens
      [] f = "Metric.from_str" -> argv[1] \in KnownMetricTokens
      [] f = "KernelVersion.from_str" -> argv[1] \in KnownKernelTokens

\* some token of the document, at whatever depth, has no canonical mapping
HasUnmappedToken(instances) ==
    LET entries == CpuEntries(instances, 1)
    IN  \E n \in 1..Len(entries) :
          \/ <<entries[n].instance_type, entries[n].cpu.model>> \notin KnownCpuPairs
          \/ \E m \in 1..Len(entries[n].cpu.baselines) :
               LET M == entries[n].cpu.baselines[m]
               IN  \/ M[1] \notin KnownMetricTokens
                   \/ \E k \in 1..Len(M[2]) :
                        \/ M[2][k][1] \notin KnownKernelTokens
                        \/ \E u \in 1..Len(M[2][k][2]) :
                             \/ M[2][k][2][u][1] \notin KnownOsTokens
                             \/ \E c \in 1..Len(M[2][k][2][u][2]) :
                                  M[2][k][2][u][2][c][1] \notin KnownConfigTokens

\* raw paths of the configuration leaves that do not hold exactly one key
BadLeaves(instances) ==
    LET entries == CpuEntries(instances, 1)
    IN  UNION {UNION {UNION {UNION {
          {<<n, entries[n].cpu.baselines[m][1],
             entries[n].cpu.baselines[m][2][k][1],
             entries[n].cpu.baselines[m][2][k][2][u][1],
             entries[n].cpu.baselines[m][2][k][2][u][2][c][1]>> :
              c \in {x \in 1..Len(entries[n].cpu.baselines[m][2][k][2][u][2]) :
                       Len(entries[n].cpu.baselines[m][2][k][2][u][2][x][2]) # 1}} :
            u \in 1..Len(entries[n].cpu.baselines[m][2][k][2])} :
            k \in 1..Len(entries[n].cpu.baselines[m][2])} :
            m \in 1..Len(entries[n].cpu.baselines)} :
            n \in 1..Len(entries)}

\* two entries of the document resolve to the same coordinate
HasDuplicateCoordinate(instances) ==
    LET entries == CpuEntries(instances, 1)
    IN  \/ \E n1, n2 \in 1..Len(entries) :
             /\ n1 < n2
             /\ <<entries[n1].instance_type, entries[n1].cpu.model>> \in KnownCpuPairs
             /\ entries[n1].instance_type = entries[n2].instance_type
             /\ entries[n1].cpu.model = entries[n2].cpu.model
        \/ \E n \in 1..Len(entries) :
             \E m \in 1..Len(entries[n].cpu.baselines) :
               LET K == entries[n].cpu.baselines[m][2]
               IN  \E k1, k2 \in 1..Len(K) :
                     /\ k1 < k2
                     /\ {K[k1][1], K[k2][1]} \in
                          {{"5.10", "vmlinux-5.10.bin"}, {"4.14", "vmlinux-4.14.bin"}}

Instances(p) == Get(Get(RawDoc(p), "hosts"), "instances")

Finished == lpc \in {"returned", "raised"}

(***************************************************************************)
(* Claims                                                                  *)
(***************************************************************************)

\* C4: for every member v of every dimension enumeration, parsing the
\* display string of v gives v back: from_str(str(v)) = v, and for CpuModel
\* from_codename(str(v)) = v.
C4_RoundTrip == (tpc = "parsed" /\ val # None) => res = val

\* C5: parsing an external token that has no canonical mapping raises and
\* never returns a member, for each of the six parsing functions; and a
\* document holding such a token at any depth is never loaded: the
\* constructor raises and its caller holds no object.
C5_UnmappedTokenRaises ==
    /\ (tpc = "parsed" /\ ~Mapped(fn, text)) => (Raised(res) /\ res \notin Members)
    /\ (Finished /\ doc.hosts /\ HasUnmappedToken(Instances(doc))) =>
          (lpc = "raised" /\ Raised(load_err) /\ result.err = "unbound")

C5_Witness ==
    /\ lpc = "raised" /\ doc.hosts /\ doc.fault = "os" /\ doc.badcpu = 2
    /\ HasUnmappedToken(Instances(doc))
    /\ Len(this._instances) = 1

\* C6: loading a document whose top level has no `hosts` key fails with the
\* malformed-baseline exception before any instance data is parsed, and the
\* caller holds no parser object.
C6_NoHostsFails ==
    (~doc.hosts /\ lpc \notin {"idle", "start"}) =>
        /\ lpc = "raised" /\ load_err = Exception
        /\ calls = <<>> /\ cursor = 0
        /\ this.err = "unbound" /\ result.err = "unbound"

C6_Witness == lpc = "raised" /\ ~doc.hosts /\ load_err = Exception /\ doc.ncpus = 2

\* C7: a configuration leaf holding zero keys or more than one key makes
\* the load fail, and the extraction function is never invoked for it.
C7_SingleKind ==
    (doc.hosts /\ lpc \notin {"idle", "start"}) =>
        /\ \A i \in 1..Len(calls) : calls[i] \notin BadLeaves(Instances(doc))
        /\ (Finished /\ BadLeaves(Instances(doc)) # {}) =>
              (lpc = "raised" /\ load_err = AssertionError /\ result.err = "unbound")

C7_Witness ==
    /\ lpc = "raised" /\ load_err = AssertionError /\ doc.hosts
    /\ doc.fault = "twokinds" /\ doc.where = 2 /\ Len(calls) > 0

\* C8: when a load fails after earlier CPU entries were parsed, the caller
\* receives only the exception: it never holds a parser object, so the
\* entries parsed before the failure are not observable through it.
C8_NoPartialTree ==
    /\ lpc = "raised" => result.err = "unbound"
    /\ result.err # "unbound" =>
          (lpc = "returned" /\ Len(CpuEntries(result._baselines, 1)) + 1 = cursor)

C8_Witness ==
    /\ lpc = "raised" /\ Len(this._instances) >= 1 /\ result.err = "unbound"
    /\ doc.fault \in {"twokinds", "kernel"}

\* C9: when two entries of one document resolve to the same coordinate (two
\* `cpus` entries with the same CpuModel, or the kernel keys 5.10 and
\* vmlinux-5.10.bin under one metric) the load fails.
C9_DuplicatesRejected ==
    (Finished /\ doc.hosts /\ HasDuplicateCoordinate(Instances(doc))) => lpc = "raised"

\* the paths of the worktrees the run has added
Added == {git_log[i].path : i \in {j \in 1..Len(git_log) : git_log[j].op = "add"}}

\* C1: in the `commit` and `latest` commands every worktree that was added
\* has been removed by the time the command ends, on the success path and
\* on every failure path.
C1_WorktreesRemoved ==
    (cmd # None /\ cpc \in {"done", "raised"}) => Added \cap worktrees = {}

\* C2: in the `commit` and `latest` commands no `git worktree remove` step
\* occurs before the call to compare has returned or raised.
C2_RemoveAfterCompare ==
    cmd # None =>
        \A i \in 1..Len(git_log) :
            git_log[i].op = "remove" =>
                \E j \in 1..(i - 1) :
                    git_log[j].op \in {"compare:returned", "compare:raised"}

\* every worktree added so far was removed by the next git command, except
\* that the last one may still be checked out
AddRemovePaired(open_last) ==
    /\ \A i \in 1..Len(git_log) :
         /\ git_log[i].op = (IF i % 2 = 1 THEN "add" ELSE "remove")
         /\ i % 2 = 0 => git_log[i].path = git_log[i - 1].path
    /\ Len(git_log) % 2 = (IF open_last THEN 1 ELSE 0)

\* C3: in the plotting loop over git refs, whenever __enter__ succeeded the
\* worktree it added is removed exactly once when the block is left (normal
\* end, `continue`, or an exception raised while loading or querying), so at
\* most one worktree exists at any moment and none exists between two
\* blocks, after the loop or after the exception has left the function.
C3_ScopedWorktree ==
    ppc # "idle" =>
        /\ Cardinality(worktrees) <= 1
        /\ ppc \in {"load", "collect", "exit"} =>
              (worktrees = {gw_hash} /\ AddRemovePaired(TRUE))
        /\ ppc \in {"for", "done", "raised"} =>
              (worktrees = {} /\ AddRemovePaired(FALSE))

C3_Witness ==
    /\ ppc = "raised" /\ plot_err = KeyError
    /\ Len(git_log) = 4 /\ worktrees = {}
    /\ found_git_versions = <<>>

\* every git ref names a revision whose document is opened, is well formed
\* and at most lacks some coordinate
WellFormedHistory ==
    /\ repo.layout = "nested"
    /\ \A i \in 1..Len(git_versions) :
         /\ RevParse(git_versions[i]) # None
         /\ repo.docs[RevParse(git_versions[i])].fault \in {"none"} \cup MissingFaults

\* C10: when the well-formed document of a revision lacks the requested
\* coordinate at any level (CPU model, metric, guest kernel under a queried
\* metric, guest OS, machine configuration) no error is raised, and every
\* other revision is still processed.
C10_MissingLeavesNonFatal ==
    (ppc # "idle" /\ WellFormedHistory) => ppc # "raised"

(***************************************************************************)
(* main() of compare_baselines/main.py and of print_baselines/main.py:     *)
(* parser.parse_args(), then args.handler(args).  utils.defs is not among  *)
(* the sources; TESTS, KERNELS and CODENAME2DICT are taken from the        *)
(* specification's closed enumerations: the command line tokens of the     *)
(* kernel versions and of the CPU models, and the test families.           *)
(***************************************************************************)
defs_TESTS == <<"network_tcp_throughput", "block_performance">>

KERNELS == <<"4.14", "5.10">>

\* list(CODENAME2DICT.keys())
CODENAME2DICT_keys ==
    <<"skylake", "cascadelake", "icelake", "milan", "graviton2", "graviton3",
      "graviton4">>

MaxArgs == 2

\* the values an option may be given on the command line
ArgLists(S) == UNION {[1..n -> S] : n \in 0..MaxArgs}

TestArgs == {"network_tcp_throughput", "block_performance", "boot_time"}
KernelArgs == {"4.14", "5.10", "6.1", "vmlinux-5.10.bin"}
CodenameArgs == {"skylake", "graviton4", "Milan", "graviton5"}

Subcommands(t) ==
    IF t = "compare_baselines" THEN {"cpu", "directory", "commit", "latest"}
    ELSE {"commit"}

\* the options left out take their defaults
Defaults(sub) ==
    [sub |-> sub, tests |-> defs_TESTS, kernels |-> KERNELS,
     guest_kernels |-> KERNELS, codenames |-> CODENAME2DICT_keys]

Requests(t) ==
    {Defaults(None)}
    \cup UNION {{[Defaults(sub) EXCEPT !.tests = l] : l \in ArgLists(TestArgs)}
                \cup {[Defaults(sub) EXCEPT !.kernels = l] : l \in ArgLists(KernelArgs)}
                \cup {[Defaults(sub) EXCEPT !.codenames = l] : l \in ArgLists(CodenameArgs)}
                \cup (IF t = "print_baselines"
                      THEN {[Defaults(sub) EXCEPT !.guest_kernels = l] :
                              l \in ArgLists(KernelArgs)}
                      ELSE {}) :
                  sub \in Subcommands(t)}

InSeq(x, s) == \E i \in 1..Len(s) : s[i] = x

\* argparse on one option: nargs="+" wants a value, choices= is tested on
\* each value
OptionOk(values, nargs, choices) ==
    /\ nargs = "+" => Len(values) >= 1
    /\ \A i \in 1..Len(values) : InSeq(values[i], choices)

SystemExit == "SystemExit"

\* parser.parse_args() of compare_baselines: what args.handler is, None
\* without a subcommand, SystemExit when argparse reports an error
compare_parse_args(req) ==
    IF req.sub = None THEN None
    ELSE IF /\ OptionOk(req.tests, "+", defs_TESTS)
            /\ OptionOk(req.kernels, "+", KERNELS)
            /\ OptionOk(req.codenames, "*", CODENAME2DICT_keys)
    THEN CASE req.sub = "cpu" -> "cmd_cpu"
           [] req.sub = "directory" -> "cmd_directory"
           [] req.sub = "commit" -> "cmd_commit"
           [] req.sub = "latest" -> "cmd_latest"
    ELSE SystemExit

\* --cpu-models declared without choices=
print_parse_args_unchecked(req) ==
    IF req.sub = None THEN None
    ELSE IF /\ OptionOk(req.tests, "+", defs_TESTS)
            /\ OptionOk(req.kernels, "+", KERNELS)
            /\ OptionOk(req.guest_kernels, "+", KERNELS)
            /\ Len(req.codenames) >= 1
    THEN "cmd_git"
    ELSE SystemExit

\* parser.parse_args() of print_baselines
print_parse_args(req) ==
    IF req.sub = None THEN None
    ELSE IF /\ OptionOk(req.tests, "+", defs_TESTS)
            /\ OptionOk(req.kernels, "+", KERNELS)
            /\ OptionOk(req.guest_kernels, "+", KERNELS)
            /\ OptionOk(req.codenames, "+", CODENAME2DICT_keys)
    THEN "cmd_git"
    ELSE SystemExit

MainInit ==
    /\ tool \in {"compare_baselines", "print_baselines"}
    /\ request \in Requests(tool)
    /\ mpc = "parse_args" /\ handler = None
    /\ m_ix = 0 /\ h_ix = 0 /\ g_ix = 0 /\ main_err = NoFailure
    /\ GitIdle
    /\ cmd = None /\ cpc = "idle" /\ cmd_err = NoErr
    /\ IF tool = "compare_baselines" /\ request.sub \in {"commit", "latest"}
       THEN head \in Hashes ELSE head = None
    /\ IF tool = "compare_baselines" /\ request.sub = "commit"
       THEN args \in [source : Hashes, target : {None, "b2e4"}]
       ELSE args = NoArgs

MainRaise(exc, at) ==
    /\ mpc' = "raised"
    /\ main_err' = [exc |-> exc, at |-> at]

\* args = parser.parse_args(); args.handler(args) is entered, or the help
\* is printed
main_parse_args ==
    /\ mpc = "parse_args"
    /\ \E h \in {IF tool = "compare_baselines" THEN compare_parse_args(request)
                 ELSE print_parse_args(request)} :
         /\ IF h = SystemExit
            THEN /\ mpc' = "exit2"
                 /\ main_err' = [exc |-> SystemExit, at |-> "parse_args"]
                 /\ UNCHANGED <<handler, cmd, cpc, m_ix>>
            ELSE /\ handler' = h
                 /\ mpc' = IF h = None THEN "print_help" ELSE h
                 /\ cmd' = CASE h = "cmd_commit" -> "commit"
                             [] h = "cmd_latest" -> "latest"
                             [] OTHER -> cmd
                 /\ cpc' = IF h \in {"cmd_commit", "cmd_latest"} THEN "start" ELSE cpc
                 /\ m_ix' = IF h = "cmd_git" THEN 1 ELSE m_ix
                 /\ UNCHANGED main_err
    /\ UNCHANGED <<tool, request, h_ix, g_ix, args, head, cmd_err, gitVars,
                   plotVars, exceptMain>>

\* the calls of a comparator handler that were made, the last one raising
\* unless all three returned
ComparatorCalls == <<"construct", "compare:returned", "dump_json">>

\* cmd_cpu(args): CpuComparator(...), comp.compare(), comp.dump_json(...)
cmd_cpu ==
    /\ mpc = "cmd_cpu"
    /\ \E n \in 0..Len(ComparatorCalls) :
         /\ git_log' = git_log \o [i \in 1..n |-> Event(ComparatorCalls[i], "CpuComparator")]
         /\ IF n = Len(ComparatorCalls)
            THEN mpc' = "done" /\ UNCHANGED main_err
            ELSE MainRaise(Exception, "CpuComparator")
    /\ UNCHANGED <<tool, request, handler, m_ix, h_ix, g_ix, worktrees, cmdVars,
                   plotVars, exceptMain>>

\* cmd_directory(args): DirectoryComparator(...), comp.compare(...),
\* comp.dump_json(...)
cmd_directory ==
    /\ mpc = "cmd_directory"
    /\ \E n \in 0..Len(ComparatorCalls) :
         /\ git_log' = git_log \o [i \in 1..n |-> Event(ComparatorCalls[i], "DirectoryComparator")]
         /\ IF n = Len(ComparatorCalls)
            THEN mpc' = "done" /\ UNCHANGED main_err
            ELSE MainRaise(Exception, "DirectoryComparator")
    /\ UNCHANGED <<tool, request, handler, m_ix, h_ix, g_ix, worktrees, cmdVars,
                   plotVars, exceptMain>>

\* cmd_commit / cmd_latest has returned or raised: main() ends with it
main_handler_end ==
    /\ mpc \in {"cmd_commit", "cmd_latest"}
    /\ cpc \in {"done", "raised"}
    /\ IF cpc = "done" THEN mpc' = "done" /\ UNCHANGED main_err
       ELSE MainRaise(cmd_err, handler)
    /\ UNCHANGED <<tool, request, handler, m_ix, h_ix, g_ix, gitVars, cmdVars,
                   plotVars, exceptMain>>

PlotRest == <<git_versions, repo, ppc, idx, gw_hash, parser_obj,
              found_git_versions, guest_to_host, pending, plot_err>>

\* cmd_git: for machine in args.cpu_models: machine = CpuModel.from_codename(machine)
cmd_git ==
    /\ mpc = "cmd_git"
    /\ IF m_ix > Len(request.codenames)
       THEN /\ mpc' = "done"
            /\ UNCHANGED <<machine, h_ix, main_err>>
       ELSE \E m \in {CpuModel_from_codename(request.codenames[m_ix])} :
              IF Raised(m)
              THEN /\ MainRaise(m, "CpuModel.from_codename")
                   /\ UNCHANGED <<machine, h_ix>>
              ELSE /\ machine' = m
                   /\ h_ix' = 1
                   /\ mpc' = "plot_machine_metrics"
                   /\ UNCHANGED main_err
    /\ UNCHANGED <<tool, request, handler, m_ix, g_ix, host_kernel, guest_kernel,
                   PlotRest, gitVars, cmdVars, exceptMain>>

\* plot_machine_metrics: for host_kernel in args.host_kernels:
\*     host_kernel = KernelVersion.from_str(host_kernel)
plot_machine_metrics ==
    /\ mpc = "plot_machine_metrics"
    /\ IF h_ix > Len(request.kernels)
       THEN /\ mpc' = "cmd_git"
            /\ m_ix' = m_ix + 1
            /\ UNCHANGED <<host_kernel, g_ix, main_err>>
       ELSE \E k \in {KernelVersion_from_str(request.kernels[h_ix])} :
              IF Raised(k)
              THEN /\ MainRaise(k, "KernelVersion.from_str")
                   /\ UNCHANGED <<host_kernel, g_ix, m_ix>>
              ELSE /\ host_kernel' = k
                   /\ g_ix' = 1
                   /\ mpc' = "plot_host_kernel_metrics"
                   /\ UNCHANGED <<m_ix, main_err>>
    /\ UNCHANGED <<tool, request, handler, h_ix, machine, guest_kernel,
                   PlotRest, gitVars, cmdVars, exceptMain>>

\* the calls of plot_network_tcp_throughput that plot_guest_kernel_metrics
\* makes, one for each test of that name
PlotCalls(tests) ==
    Eval({[i \in 1..Len(mine) |-> Event("plot_network_tcp_throughput", "")] :
            mine \in {SelectSeq(tests, LAMBDA t : t = "network_tcp_throughput")}})

\* plot_host_kernel_metrics: for guest_kernel in args.guest_kernels:
\*     guest_kernel = KernelVersion.from_str(guest_kernel)
\*     plot_guest_kernel_metrics(args, machine, host_kernel, guest_kernel)
\* where a call of plot_network_tcp_throughput returns or raises
plot_host_kernel_metrics ==
    /\ mpc = "plot_host_kernel_metrics"
    /\ IF g_ix > Len(request.guest_kernels)
       THEN /\ mpc' = "plot_machine_metrics"
            /\ h_ix' = h_ix + 1
            /\ UNCHANGED <<guest_kernel, g_ix, main_err, git_log>>
       ELSE \E k \in {KernelVersion_from_str(request.guest_kernels[g_ix])} :
              IF Raised(k)
              THEN /\ MainRaise(k, "KernelVersion.from_str")
                   /\ UNCHANGED <<guest_kernel, g_ix, h_ix, git_log>>
              ELSE /\ guest_kernel' = k
                   /\ \E plots \in {PlotCalls(request.tests)} :
                        \E raising \in 0..Len(plots) :
                          IF raising = 0
                          THEN /\ git_log' = git_log \o plots
                               /\ g_ix' = g_ix + 1
                               /\ UNCHANGED <<mpc, main_err>>
                          ELSE /\ git_log' = git_log \o SubSeq(plots, 1, raising)
                               /\ MainRaise(Exception, "plot_network_tcp_throughput")
                               /\ UNCHANGED g_ix
                   /\ UNCHANGED h_ix
    /\ UNCHANGED <<tool, request, handler, m_ix, machine, host_kernel,
                   PlotRest, worktrees, cmdVars, exceptMain>>

NextMain ==
    \/ main_parse_args
    \/ cmd_cpu
    \/ cmd_directory
    \/ main_handler_end
    \/ cmd_git
    \/ plot_machine_metrics
    \/ plot_host_kernel_metrics
    \/ mpc \in {"cmd_commit", "cmd_latest"} /\ NextCompare

InitMain ==
    /\ MainInit /\ TypesIdle /\ LoadIdle /\ PlotIdle
    /\ ImgIdle /\ QueryIdle /\ PipeIdle /\ ExtractIdle

SpecMain == InitMain /\ [][NextMain]_vars

(***************************************************************************)
(* Claims about main()                                                     *)
(***************************************************************************)
\* the request names a test, kernel version or CPU codename outside the
\* allowed sets
OutsideAllowed(t, req) ==
    \/ \E i \in 1..Len(req.tests) : ~InSeq(req.tests[i], defs_TESTS)
    \/ \E i \in 1..Len(req.kernels) : ~InSeq(req.kernels[i], KERNELS)
    \/ /\ t = "print_baselines"
       /\ \E i \in 1..Len(req.guest_kernels) : ~InSeq(req.guest_kernels[i], KERNELS)
    \/ \E i \in 1..Len(req.codenames) : ~InSeq(req.codenames[i], CODENAME2DICT_keys)

RECURSIVE GCD(_, _)
GCD(a, b) == IF b = 0 THEN a ELSE GCD(b, a % b)

Abs(x) == IF x < 0 THEN -x ELSE x

Rat(num, den) ==
    LET g == GCD(Abs(num), Abs(den))
        sign == IF den < 0 THEN -1 ELSE 1
    IN  [num |-> (sign * num) \div g, den |-> (sign * den) \div g]

NoneValue == [num |-> 0, den |-> 0]

TypeError == "TypeError"

\* x + base of Python, base an int: defined on numbers, TypeError on None
Addable(x) == x # NoneValue

Plus(x, base) == Rat(x.num + base * x.den, x.den)

\* ComparisonRecord.target_diff_percentage: undefined on a zero basis
target_diff_percentage(basis, comparison) ==
    IF basis.target = 0 THEN NoneValue
    ELSE Rat(comparison.target * 100, basis.target)

\* ComparisonRecord.delta_percentage_diff
delta_percentage_diff(basis, comparison) ==
    Rat(comparison.delta_percentage - basis.delta_percentage, 1)

BasisModel == "Intel(R) Xeon(R) Platinum 8175M CPU @ 2.50GHz"
ComparisonModel == "Intel(R) Xeon(R) Platinum 8259CL CPU @ 2.50GHz"

MODEL2SHORT == << <<BasisModel, "SkyLake">>, <<ComparisonModel, "CascadeLake">> >>

StatsEntry(model, mean) ==
    [model |-> model, value |-> [mean |-> mean, stdev |-> Rat(0, 1)]]

\* the report for one (test, kernel) pair and one metric whose coordinate
\* holds `basis` for the first model and `comparison` for the second
Report(basis, comparison) ==
    << <<"network_tcp_throughput_5.10",
         [test |-> "network_tcp_throughput",
          kernel |-> "5.10",
          stats |->
            << <<"throughput",
                 << <<"target_diff_percentage",
                      <<StatsEntry(BasisModel, target_diff_percentage(basis, basis)),
                        StatsEntry(ComparisonModel,
                                   target_diff_percentage(basis, comparison))>> >>,
                    <<"delta_percentage_diff",
                      <<StatsEntry(BasisModel, delta_percentage_diff(basis, basis)),
                        StatsEntry(ComparisonModel,
                                   delta_percentage_diff(basis, comparison))>> >> >> >> >>] >> >>

NoFigure == [err |-> NoErr, file |-> <<>>, labels |-> <<>>, x_vals |-> <<>>,
             y_vals |-> <<>>, yerrs |-> <<>>]

\* the chart drawn with the base left out
figure_unshifted(raw, metric, value, key, base) ==
    LET cpus == Get(value, key)
    IN  [NoFigure EXCEPT
           !.file = <<raw.test, raw.kernel, metric, key>>,
           !.labels = [i \in 1..Len(cpus) |-> Get(MODEL2SHORT, cpus[i].model)],
           !.x_vals = [i \in 1..Len(cpus) |-> i - 1],
           !.y_vals = [i \in 1..Len(cpus) |-> cpus[i].value.mean],
           !.yerrs = [i \in 1..Len(cpus) |-> cpus[i].value.stdev]]

\* output_images.py:21-51, the body of `for metric, value in stats.items()`:
\* the chart saved, or the exception raised
figure(raw, metric, value, key, base) ==
    IF ~Has(value, key) THEN [NoFigure EXCEPT !.err = KeyError]
    ELSE LET cpus == Get(value, key)
         IN  IF \E i \in 1..Len(cpus) : ~Has(MODEL2SHORT, cpus[i].model)
             THEN [NoFigure EXCEPT !.err = KeyError]
             ELSE IF \E i \in 1..Len(cpus) : ~Addable(cpus[i].value.mean)
             THEN [NoFigure EXCEPT !.err = TypeError]
             ELSE [NoFigure EXCEPT
                     !.file = <<raw.test, raw.kernel, metric, key>>,
                     !.labels = [i \in 1..Len(cpus) |-> Get(MODEL2SHORT, cpus[i].model)],
                     !.x_vals = [i \in 1..Len(cpus) |-> i - 1],
                     !.y_vals = [i \in 1..Len(cpus) |-> Plus(cpus[i].value.mean, base)],
                     !.yerrs = [i \in 1..Len(cpus) |-> cpus[i].value.stdev]]

\* the charts of one report entry, stopping at an exception
RECURSIVE figures_of_stats(_, _, _, _, _)
figures_of_stats(raw, key, base, i, acc) ==
    IF acc.err # NoErr \/ i > Len(raw.stats) THEN acc
    ELSE Eval({IF fig.err # NoErr THEN [acc EXCEPT !.err = fig.err]
               ELSE figures_of_stats(raw, key, base, i + 1,
                                     [acc EXCEPT !.figs = Append(@, fig)]) :
                 fig \in {figure(raw, raw.stats[i][1], raw.stats[i][2], key, base)}})

\* output_images(result, dpath, key, base): [err, figs]
RECURSIVE output_images(_, _, _, _, _)
output_images(loaded, key, base, i, acc) ==
    IF acc.err # NoErr \/ i > Len(loaded) THEN acc
    ELSE Eval({output_images(loaded, key, base, i + 1, next) :
                 next \in {figures_of_stats(loaded[i][2], key, base, 1, acc)}})

\* output_images.py:80-83
KeyBases == << <<"target_diff_percentage", 100>>, <<"delta_percentage_diff", 0>> >>

LeafTargets == {0, 40, 100, 105}
LeafDeltas == {10, 12}
Leaves == [target : LeafTargets, delta_percentage : LeafDeltas]

ImgInit ==
    /\ basis_leaf \in Leaves /\ comparison_leaf \in Leaves
    /\ report = <<>> /\ ipc = "compare" /\ key_ix = 0 /\ figures = <<>>
    /\ img_err = NoErr

\* the comparison of the two leaves; the report is written by dump_json and
\* loaded by output_images.py's main()
compare_and_dump ==
    /\ ipc = "compare"
    /\ report' = Report(basis_leaf, comparison_leaf)
    /\ key_ix' = 1
    /\ ipc' = "for"
    /\ UNCHANGED <<basis_leaf, comparison_leaf, figures, img_err, exceptImg>>

\* one pass of `for (key, base) in [...]: output_images(result, args.output, key, base)`
images_for_key ==
    /\ ipc = "for" /\ key_ix <= Len(KeyBases)
    /\ \E drawn \in {output_images(report, KeyBases[key_ix][1], KeyBases[key_ix][2], 1,
                                   [err |-> NoErr, figs |-> <<>>])} :
         /\ figures' = figures \o drawn.figs
         /\ IF drawn.err # NoErr
            THEN /\ ipc' = "raised"
                 /\ img_err' = drawn.err
                 /\ UNCHANGED key_ix
            ELSE /\ key_ix' = key_ix + 1
                 /\ UNCHANGED <<ipc, img_err>>
    /\ UNCHANGED <<basis_leaf, comparison_leaf, report, exceptImg>>

images_end ==
    /\ ipc = "for" /\ key_ix > Len(KeyBases)
    /\ ipc' = "done"
    /\ UNCHANGED <<basis_leaf, comparison_leaf, report, key_ix, figures, img_err,
                   exceptImg>>

NextImages ==
    \/ compare_and_dump
    \/ images_for_key
    \/ images_end

InitImages ==
    /\ ImgInit /\ TypesIdle /\ LoadIdle /\ GitIdle /\ CmdIdle /\ PlotIdle
    /\ MainIdle /\ QueryIdle /\ PipeIdle /\ ExtractIdle

SpecImages == InitImages /\ [][NextImages]_vars

\* x is the number n/d
IsFraction(x, n, d) == x # NoneValue /\ x.num * d = n * x.den

\* the entry of the comparison side under stats[metric][key]
Stored(key) == Get(Get(report[1][2].stats, "throughput"), key)[2].value.mean

\* the entry of the basis compared with itself
StoredBasis(key) == Get(Get(report[1][2].stats, "throughput"), key)[1].value.mean

Drawn(key) == SelectSeq(figures, LAMBDA f : f.file[4] = key)

BaselineParser_metadata(obj) == obj._meta

BaselineParser_host_kernel(obj) == obj._hk

BaselineParser_git_version(obj) == obj._git_version

\* r.v[key], r.v being the dict the extraction function stored for a direction
Field(r, key) ==
    Eval({IF x.err # NoErr THEN x
          ELSE IF key \in DOMAIN x.v THEN Found(x.v[key])
          ELSE [err |-> KeyError, v |-> <<>>] : x \in {r}})

\* self.machine_configs(...)[machine_config][direction]
Direction(obj, c, direction) ==
    Subscript(Subscript(machine_configs(obj, c.instance_type, c.metric,
                                        c.guest_kernel, c.guest_rootfs),
                        c.machine_config),
              direction)

guest_to_host_target_delta(obj, c) == Field(Direction(obj, c, "guest-to-host"), "delta")

host_to_guest_target(obj, c) == Field(Direction(obj, c, "host-to-guest"), "target")

host_to_guest_target_delta(obj, c) == Field(Direction(obj, c, "host-to-guest"), "delta")

bidirectional_target(obj, c) == Field(Direction(obj, c, "bidirectional"), "target")

bidirectional_target_delta(obj, c) == Field(Direction(obj, c, "bidirectional"), "delta")

PlainAccessors == {"metadata", "cpu_models", "host_kernel", "git_version"}

TargetAccessors ==
    {"guest_to_host_target", "host_to_guest_target", "bidirectional_target"}

DeltaAccessors ==
    {"guest_to_host_target_delta", "host_to_guest_target_delta",
     "bidirectional_target_delta"}

CoordinateAccessors ==
    {"metrics", "guest_kernels", "guest_rootfs", "machine_configs"}
    \cup TargetAccessors \cup DeltaAccessors

\* what the accessor returns or raises
Returned(obj, name, c) ==
    CASE name = "metadata" -> Found(BaselineParser_metadata(obj))
      [] name = "cpu_models" -> Found(cpu_models(obj))
      [] name = "host_kernel" -> Found(BaselineParser_host_kernel(obj))
      [] name = "git_version" -> Found(BaselineParser_git_version(obj))
      [] name = "metrics" -> metrics(obj, c.instance_type)
      [] name = "guest_kernels" -> guest_kernels(obj, c.instance_type, c.metric)
      [] name = "guest_rootfs" ->
           guest_rootfs(obj, c.instance_type, c.metric, c.guest_kernel)
      [] name = "machine_configs" ->
           machine_configs(obj, c.instance_type, c.metric, c.guest_kernel,
                           c.guest_rootfs)
      [] name = "guest_to_host_target" ->
           guest_to_host_target(obj, c.instance_type, c.metric, c.guest_kernel,
                                c.guest_rootfs, c.machine_config)
      [] name = "guest_to_host_target_delta" -> guest_to_host_target_delta(obj, c)
      [] name = "host_to_guest_target" -> host_to_guest_target(obj, c)
      [] name = "host_to_guest_target_delta" -> host_to_guest_target_delta(obj, c)
      [] name = "bidirectional_target" -> bidirectional_target(obj, c)
      [] name = "bidirectional_target_delta" -> bidirectional_target_delta(obj, c)

\* metrics() takes the entry out of the dict: self._instances.pop(instance_type)
Call_consuming(obj, name, c) ==
    [self |-> IF name = "metrics" /\ Has(obj._instances, c.instance_type)
              THEN [obj EXCEPT !._instances =
                      SelectSeq(@, LAMBDA item : item[1] # c.instance_type)]
              ELSE obj,
     ret |-> Returned(obj, name, c)]

\* a call of an accessor: the object afterwards and the result.  No accessor
\* holds an assignment, a del or a call of a mutating method.
Call(obj, name, c) == [self |-> obj, ret |-> Returned(obj, name, c)]

MaxQueries == 2

QueryCoords ==
    [instance_type : {"CpuModel.CASCADE_LAKE"},
     metric : {"Metric.THROUGHPUT"},
     guest_kernel : {"KernelVersion.KERNEL_5_10"},
     guest_rootfs : {"GuestOs.UBUNTU_18_04"},
     machine_config : {"MachineConfig.VCPU_1_MEM_1G", "MachineConfig.VCPU_2_MEM_1G"}]

NoCoord == [instance_type |-> None, metric |-> None, guest_kernel |-> None,
            guest_rootfs |-> None, machine_config |-> None]

QueryCalls ==
    [name : PlainAccessors, c : {NoCoord}]
    \cup [name : CoordinateAccessors, c : QueryCoords]

\* the documents the queried objects are loaded from
QueryDocs ==
    {p \in DocParams :
        /\ p.hosts /\ p.ncpus = 1 /\ p.badcpu = 1 /\ p.where = 1
        /\ p.fault \in {"none", "nometric", "noconfig"}}

QueryInit == LoadInit /\ doc \in QueryDocs /\ q_log = <<>>

\* parser.<accessor>(...) on the object the constructor returned
Query ==
    /\ lpc = "returned"
    /\ Len(q_log) < MaxQueries
    /\ \E q \in QueryCalls :
         \E r \in {Call(result, q.name, q.c)} :
           /\ result' = r.self
           /\ q_log' = Append(q_log, [call |-> q, ret |-> r.ret])
    /\ UNCHANGED <<doc, lpc, this, cursor, calls, load_err, exceptQuery>>

NextQuery ==
    \/ Load_init
    \/ Load_parse_cpu
    \/ Load_return
    \/ Query

InitQuery ==
    /\ QueryInit /\ TypesIdle /\ GitIdle /\ CmdIdle /\ PlotIdle /\ MainIdle
    /\ ImgIdle /\ PipeIdle /\ ExtractIdle

SpecQuery == InitQuery /\ [][NextQuery]_vars

\* raw['hosts']['instances'] of the document loaded
RawInstances == Get(Get(RawDoc(doc), "hosts"), "instances")

\* C13: the loader does not change the raw document data while parsing, and
\* no query changes the tree, the metadata or the raw hosts.instances data
\* of the loaded object: the object stays as constructed and a repeated
\* query returns what it returned the first time.
C13_TreeImmutable ==
    /\ lpc \in {"parsing", "returned"} =>
         /\ this._baselines = RawInstances
         /\ this._meta = SelectSeq(RawDoc(doc), LAMBDA item : item[1] # "hosts")
    /\ lpc = "returned" =>
         /\ result = this
         /\ \A i, j \in 1..Len(q_log) :
              q_log[i].call = q_log[j].call => q_log[i].ret = q_log[j].ret

\* the same query has been made twice on a loaded tree and found its entry
C13_Witness ==
    /\ lpc = "returned" /\ Len(q_log) = 2
    /\ q_log[1].call = q_log[2].call
    /\ q_log[1].call.name = "metrics"
    /\ q_log[2].ret.err = NoErr

(***************************************************************************)
(* NetworkTCPThroughput.parser(data, container) applied to payloads of     *)
(* any keys in any order.  Each entry holds a target and a                 *)
(* delta_percentage, as the entries of the baseline files do.              *)
(***************************************************************************)
MaxKeys == 3

\* test-type keys: two guest-to-host ones, one with two tags, one with none
PayloadKeys ==
    << <<"a", "-", "h", "2", "g">>,
       <<"a", "-", "g", "2", "h">>,
       <<"b", "-", "g", "2", "h">>,
       <<"a", "-", "b", "d">>,
       <<"h", "2", "g", "-", "b", "d">>,
       <<"t", "c", "p">> >>

PayloadEntry(k) == <<PayloadKeys[k], [target |-> 100 * k, delta_percentage |-> k]>>

\* the dicts of at most MaxKeys keys, the keys in any order
Payloads ==
    UNION {{[i \in 1..n |-> PayloadEntry(ks[i])] :
              ks \in {f \in [1..n -> 1..Len(PayloadKeys)] :
                        \A i, j \in 1..n : i # j => f[i] # f[j]}} :
             n \in 0..MaxKeys}

ExtractInit == payload \in Payloads /\ container = <<>> /\ xpc = "call"

\* parser(data, machine_config[config]) on the empty dict of parser.py:71-72
extract ==
    /\ xpc = "call"
    /\ container' = parser(payload)
    /\ xpc' = "returned"
    /\ UNCHANGED <<payload, exceptExtract>>

NextExtract == extract

InitExtract ==
    /\ ExtractInit /\ TypesIdle /\ LoadIdle /\ GitIdle /\ CmdIdle /\ PlotIdle
    /\ MainIdle /\ ImgIdle /\ QueryIdle /\ PipeIdle

SpecExtract == InitExtract /\ [][NextExtract]_vars

\* the positions of the payload's keys that contain the tag
Positions(tag) == {i \in 1..Len(payload) : Contains(tag, payload[i][1])}

\* the i-th smallest member of S
Nth(S, i) == CHOOSE x \in S : Cardinality({y \in S : y < x}) = i - 1

\* the direction's lists hold exactly the entries of the tagged keys, in the
\* payload's key order
DirectionHolds(entry, tag) ==
    LET P == Positions(tag)
    IN  /\ Len(entry.target) = Cardinality(P)
        /\ Len(entry.delta_percentage) = Cardinality(P)
        /\ \A i \in 1..Cardinality(P) :
             /\ entry.target[i] = payload[Nth(P, i)][2].target
             /\ entry.delta_percentage[i] = payload[Nth(P, i)][2].delta_percentage

\* C15: the extraction function puts each test-type key under host-to-guest
\* when its name contains h2g, under guest-to-host when it contains g2h and
\* under bidirectional when it contains bd; in each direction the target
\* list and the delta_percentage list have the same length and their i-th
\* entries come from the same key, in the payload's key order, and for
\* bidirectional the i-th test_type is that key.
C15_DirectionsAligned ==
    xpc = "returned" =>
        /\ Keys(container) = <<"host-to-guest", "guest-to-host", "bidirectional">>
        /\ DirectionHolds(Get(container, "host-to-guest"), h2g_tag)
        /\ DirectionHolds(Get(container, "guest-to-host"), g2h_tag)
        /\ DirectionHolds(Get(container, "bidirectional"), bd_tag)
        /\ LET bd == Get(container, "bidirectional")
               P == Positions(bd_tag)
           IN  /\ Len(bd.test_type) = Cardinality(P)
               /\ \A i \in 1..Cardinality(P) : bd.test_type[i] = payload[Nth(P, i)][1]

\* a payload with two guest-to-host keys, the later-named one first, and a
\* key carrying two tags has been extracted
C15_Witness ==
    /\ xpc = "returned"
    /\ Len(payload) = 3
    /\ payload[1][1] = PayloadKeys[3] /\ payload[2][1] = PayloadKeys[5]
    /\ payload[3][1] = PayloadKeys[2]
    /\ Get(container, "guest-to-host").target = <<300, 200>>
    /\ Get(container, "bidirectional").test_type = <<PayloadKeys[5]>>

\* the dict the extraction function stored at the coordinate for a direction
StoredDirection(c, direction) == Direction(this, c, direction)

DirectionOf(name) ==
    CASE name \in {"guest_to_host_target", "guest_to_host_target_delta"} -> "guest-to-host"
      [] name \in {"host_to_guest_target", "host_to_guest_target_delta"} -> "host-to-guest"
      [] name \in {"bidirectional_target", "bidirectional_target_delta"} -> "bidirectional"

\* C16: at every coordinate present in the loaded tree and for every
\* direction, the tolerance accessor returns the delta_percentage values the
\* extraction function stored there, as the target accessor returns the
\* stored target values.
C16_ToleranceAccessors ==
    lpc = "returned" =>
        \A i \in 1..Len(q_log) :
            LET q == q_log[i].call
                stored == StoredDirection(q.c, DirectionOf(q.name))
            IN  /\ (q.name \in TargetAccessors /\ stored.err = NoErr) =>
                      /\ q_log[i].ret.err = NoErr
                      /\ q_log[i].ret.v = stored.v.target
                /\ (q.name \in DeltaAccessors /\ stored.err = NoErr) =>
                      /\ q_log[i].ret.err = NoErr
                      /\ q_log[i].ret.v = stored.v.delta_percentage

(***************************************************************************)
(* Claims about the series and the files of the plotting loop              *)
(***************************************************************************)
SeriesNames == {"metric", "io_util", "total_util"}

\* C17: after the loop over the git refs each of the three series holds,
\* for every test name of TESTS, exactly one value per entry of
\* found_git_versions (in the order of found_git_versions), whatever the
\* number and order of the guest-to-host targets of the documents loaded.
C17_SeriesMatchVersions ==
    ppc = "done" =>
        \A s \in SeriesNames : \A t \in 1..Len(TESTS) :
           /\ found_git_versions # <<>> => Has(guest_to_host[s], TESTS[t])
           /\ Has(guest_to_host[s], TESTS[t]) =>
                Len(Get(guest_to_host[s], TESTS[t])) = Len(found_git_versions)

\* the file the plotting code is to read for git_ref: the configuration
\* document of the host kernel inside the worktree of the ref
ConfigOfRef == << <<gw_hash>> >> \o ConfigsPath \o <<ConfigFileName(host_kernel)>>

\* the path NetworkTCPThroughput.__init__ hands to open()
OpenedPath == baselines_file(data_file(gw_hash, host_kernel), host_kernel)

\* C18: for every git ref and host kernel the document opened during
\* plotting is tests/integration_tests/performance/configs/
\* test_network_tcp_throughput_config_<host_kernel>.json inside the ref's
\* worktree (so a worktree holding that file is read), and git_version() of
\* the loaded parser is the git ref being processed.
C18_OpensConfigOfRef ==
    /\ ppc \in {"collect", "exit"} => OpenedPath = ConfigOfRef
    /\ (ppc = "exit" /\ repo.layout = "flat") => pending # OSError
    /\ ppc = "collect" => BaselineParser_git_version(parser_obj) = git_versions[idx]

(***************************************************************************)
(* .buildkite/pipeline_perf.py: the module body that builds the pipeline   *)
(*                                                                         *)
(* A dict is a function from its keys; the values of one key have one      *)
(* type.  The labels are written without their leading pictograph.  The    *)
(* list `tests` holds references to the dicts of perf_test, so a step of   *)
(* the loop reads and writes perf_test[name].                              *)
(***************************************************************************)
ValueError == "ValueError"

\* perf_test as the module literal defines it
perf_test_literal ==
    [x \in {"block", "snapshot-latency", "vsock-throughput", "network-latency",
            "network-throughput"} |->
       CASE x = "block" ->
              [label |-> "Block Performance",
               test_path |-> "integration_tests/performance/test_block_performance.py",
               devtool_opts |-> "-r 16834m -c 1-10 -m 0",
               timeout_in_minutes |-> 240]
         [] x = "snapshot-latency" ->
              [label |-> "Snapshot Latency",
               test_path |-> "integration_tests/performance/test_snapshot_restore_performance.py",
               devtool_opts |-> "-c 1-12 -m 0",
               timeout_in_minutes |-> 45]
         [] x = "vsock-throughput" ->
              [label |-> "Vsock Throughput",
               test_path |-> "integration_tests/performance/test_vsock_throughput.py",
               devtool_opts |-> "-c 1-10 -m 0",
               timeout_in_minutes |-> 20]
         [] x = "network-latency" ->
              [label |-> "Network Latency",
               test_path |-> "integration_tests/performance/test_network_latency.py",
               devtool_opts |-> "-c 1-10 -m 0",
               timeout_in_minutes |-> 10]
         [] OTHER ->
              [label |-> "Network TCP Throughput",
               test_path |-> "integration_tests/performance/test_network_tcp_throughput.py",
               devtool_opts |-> "-c 1-10 -m 0",
               timeout_in_minutes |-> 45]]

\* choices=list(perf_test.keys())
TestChoices == DOMAIN perf_test_literal

\* the lists imported from common
DEFAULT_INSTANCES == <<"DEFAULT_INSTANCES">>
DEFAULT_KERNELS == <<"DEFAULT_KERNELS">>

\* dict.setdefault(k, v), dict.update(other), and the dict after `del d[k]`
setdefault(d, k, v) ==
    IF k \in DOMAIN d THEN d ELSE [x \in DOMAIN d \cup {k} |-> IF x = k THEN v ELSE d[x]]
update(d, other) ==
    [x \in DOMAIN d \cup DOMAIN other |-> IF x \in DOMAIN other THEN other[x] ELSE d[x]]
Removed(d, k) == [x \in DOMAIN d \ {k} |-> d[x]]

\* the keys build_group pops, in the order the pops are evaluated
PoppedKeys == <<"devtool_opts", "test_path", "label", "instances", "kernels">>

\* test.pop(keys[i]), test.pop(keys[i+1]), ...: the dict that is left, and
\* KeyError at the first key that is missing (the dict keeps the earlier pops)
RECURSIVE pop_all(_, _, _)
pop_all(d, keys, i) ==
    IF i > Len(keys) THEN [err |-> NoErr, test |-> d]
    ELSE IF keys[i] \notin DOMAIN d THEN [err |-> KeyError, test |-> d]
    ELSE pop_all(Removed(d, keys[i]), keys, i + 1)

\* common.group(label=..., command=..., ..., **test): the step it is asked for
group(label, command, agent_tags, artifacts, instances, kernels, rest) ==
    [label |-> label, command |-> command, agent_tags |-> agent_tags,
     artifacts |-> artifacts, instances |-> instances, kernels |-> kernels,
     rest |-> rest]

NoStep == [label |-> None]

\* build_group(test): the step, the exception, and test as the call leaves it
build_group(test) ==
    LET popped == pop_all(test, PoppedKeys, 1) IN
    IF popped.err # NoErr
    THEN [err |-> popped.err, test |-> popped.test, step |-> NoStep]
    ELSE [err |-> NoErr, test |-> popped.test,
          step |-> group(test.label,
                         "./tools/devtool -y test " \o test.devtool_opts
                           \o " -- --nonci -s --dump-results-to-file --log-cli-level=INFO "
                           \o test.test_path,
                         <<"ag=1">>, <<"./test_results/*">>,
                         test.instances, test.kernels, popped.test)]

\* ---- the command line ----
MaxTests == 2
TestNames == TestChoices \cup {"bogus"}
TestLists == UNION {[1..n -> TestNames] : n \in 0..MaxTests}

\* int(string) of --retries for the strings tried
RetryStrings == {"0", "2", "two"}
int(s) == CASE s = "0" -> [err |-> NoErr, v |-> 0]
            [] s = "2" -> [err |-> NoErr, v |-> 2]
            [] OTHER -> [err |-> ValueError, v |-> 0]

\* an --extra value as the pieces between which str.split looks for "="
ExtraValues == {<<"priority", "=", "1">>, <<"label", "=", "x", "=", "y">>, <<"priority">>}
ExtraLists == {<<>>} \cup {<<e>> : e \in ExtraValues}

RECURSIVE Join(_)
Join(pieces) == IF pieces = <<>> THEN "" ELSE pieces[1] \o Join(Tail(pieces))

\* val.split("=", maxsplit=1)
split(pieces) ==
    IF \E i \in 1..Len(pieces) : pieces[i] = "="
    THEN LET i == CHOOSE j \in 1..Len(pieces) :
                     pieces[j] = "=" /\ \A k \in 1..(j - 1) : pieces[k] # "="
         IN <<Join(SubSeq(pieces, 1, i - 1)), Join(SubSeq(pieces, i + 1, Len(pieces)))>>
    ELSE <<Join(pieces)>>

\* dict(pairs): ValueError when an element is not a pair
dict(pairs) ==
    IF \E i \in 1..Len(pairs) : Len(pairs[i]) # 2
    THEN [err |-> ValueError, v |-> <<>>]
    ELSE [err |-> NoErr,
          v |-> [k \in {pairs[i][1] : i \in 1..Len(pairs)} |->
                   LET last == CHOOSE i \in 1..Len(pairs) :
                                  /\ pairs[i][1] = k
                                  /\ \A j \in (i + 1)..Len(pairs) : pairs[j][1] # k
                   IN pairs[last][2]]]

NoNamespace == [test |-> <<>>, instances |-> <<>>, kernels |-> <<>>, retries |-> 0,
                extra |-> <<>>]

PipeInit ==
    /\ perf_test = perf_test_literal
    /\ \E tests \in TestLists, ins \in {<<>>, <<"m5d.metal">>},
          ks \in {<<>>, <<"linux_5.10">>}, r \in RetryStrings, ex \in ExtraLists :
         pipe_args = [argv |-> [test |-> tests, instances |-> ins, kernels |-> ks,
                                retries |-> r, extra |-> ex],
                      ns |-> NoNamespace]
    /\ group_steps = <<>>
    /\ t_ix = 0
    /\ pipe_pc = "parse_args"
    /\ pipe_err = NoErr

\* args = parser.parse_args(): --test is required and each value is one of
\* the choices, --retries goes through int; an error exits with status 2
pipe_parse_args ==
    /\ pipe_pc = "parse_args"
    /\ LET argv == pipe_args.argv IN
       IF \/ argv.test = <<>>
          \/ \E i \in 1..Len(argv.test) : argv.test[i] \notin TestChoices
          \/ int(argv.retries).err # NoErr
       THEN /\ pipe_pc' = "exit"
            /\ pipe_err' = SystemExit
            /\ UNCHANGED pipe_args
       ELSE /\ pipe_pc' = "defaults"
            /\ pipe_args' = [pipe_args EXCEPT !.ns =
                               [test |-> argv.test, instances |-> argv.instances,
                                kernels |-> argv.kernels, retries |-> int(argv.retries).v,
                                extra |-> argv.extra]]
            /\ UNCHANGED pipe_err
    /\ UNCHANGED <<perf_test, group_steps, t_ix, exceptPipe>>

\* the defaults of instances and kernels, args.extra as a dict, and
\* group_steps = [], tests = [perf_test[test] for test in args.test]
pipe_defaults ==
    /\ pipe_pc = "defaults"
    /\ LET ns == pipe_args.ns
           extra == dict([i \in 1..Len(ns.extra) |-> split(ns.extra[i])]) IN
       IF ns.extra # <<>> /\ extra.err # NoErr
       THEN /\ pipe_pc' = "exit"
            /\ pipe_err' = extra.err
            /\ UNCHANGED <<pipe_args, t_ix>>
       ELSE /\ pipe_args' = [pipe_args EXCEPT !.ns =
                [ns EXCEPT !.instances = IF ns.instances = <<>> THEN DEFAULT_INSTANCES
                                         ELSE ns.instances,
                           !.kernels = IF ns.kernels = <<>> THEN DEFAULT_KERNELS
                                       ELSE ns.kernels,
                           !.extra = IF ns.extra # <<>> THEN extra.v ELSE ns.extra]]
            /\ pipe_pc' = "for"
            /\ t_ix' = 1
            /\ UNCHANGED pipe_err
    /\ UNCHANGED <<perf_test, group_steps, exceptPipe>>

\* test_data as the body of the loop hands it to build_group
Prepared(test_data, ns) ==
    LET d1 == setdefault(test_data, "kernels", ns.kernels)
        d2 == setdefault(d1, "instances", ns.instances)
        d3 == update(d2, ns.extra)
    IN IF ns.retries > 0
       THEN setdefault(d3, "retry",
                       [automatic |-> [exit_status |-> 1, limit |-> ns.retries]])
       ELSE d3

\* one iteration of `for test_data in tests`
pipe_step ==
    /\ pipe_pc = "for"
    /\ t_ix <= Len(pipe_args.ns.test)
    /\ LET name == pipe_args.ns.test[t_ix]
           built == build_group(Prepared(perf_test[name], pipe_args.ns)) IN
       /\ perf_test' = [perf_test EXCEPT ![name] = built.test]
       /\ IF built.err # NoErr
          THEN /\ pipe_pc' = "exit"
               /\ pipe_err' = built.err
               /\ UNCHANGED <<group_steps, t_ix>>
          ELSE /\ group_steps' = Append(group_steps, built.step)
               /\ t_ix' = t_ix + 1
               /\ UNCHANGED <<pipe_pc, pipe_err>>
    /\ UNCHANGED <<pipe_args, exceptPipe>>

\* the loop is over: the pipeline is built from group_steps and written
pipe_finish ==
    /\ pipe_pc = "for"
    /\ t_ix > Len(pipe_args.ns.test)
    /\ pipe_pc' = "done"
    /\ UNCHANGED <<perf_test, pipe_args, group_steps, t_ix, pipe_err, exceptPipe>>

NextPipe == pipe_parse_args \/ pipe_defaults \/ pipe_step \/ pipe_finish

InitPipe ==
    /\ PipeInit /\ TypesIdle /\ LoadIdle /\ GitIdle /\ CmdIdle /\ PlotIdle
    /\ MainIdle /\ ImgIdle /\ QueryIdle /\ ExtractIdle

SpecPipe == InitPipe /\ [][NextPipe]_vars

\* the step of a test name built from its definition in the module literal
StepOf(name) == build_group(Prepared(perf_test_literal[name], pipe_args.ns)).step

\* C19: every accepted argument list, one that names a test twice included,
\* yields exactly one group step per --test argument, in argument order
\* (the script does not end in an exception of the loop), and building the
\* step of one argument leaves the definition of every later argument as
\* the module defines it.
C19_OneStepPerTest ==
    /\ pipe_pc = "done" =>
         /\ Len(group_steps) = Len(pipe_args.ns.test)
         /\ \A i \in 1..Len(group_steps) : group_steps[i] = StepOf(pipe_args.ns.test[i])
    /\ pipe_pc = "exit" => pipe_err \in {SystemExit, ValueError}
    /\ pipe_pc = "for" =>
         \A j \in t_ix..Len(pipe_args.ns.test) :
            perf_test[pipe_args.ns.test[j]] = perf_test_literal[pipe_args.ns.test[j]]

====
